---- MODULE Spec2Model ----
(***************************************************************************)
(* A model of sunrise_sunset.py (class location, its method ss_calc and    *)
(* the callers sunrise, sunset and main) and of winchester.py's use of it. *)
(*                                                                         *)
(* The program computes with IEEE doubles and the C library's              *)
(* trigonometric functions.  The model computes with decimal fixed-point   *)
(* numbers of eight fractional digits: a number is a pair <<i, f>> that    *)
(* stands for i + f / 10^8, where i and f have the same sign and           *)
(* |f| < 10^8.  Every operation rounds its exact result to the nearest     *)
(* multiple of 10^-8, so each step is within 10^-8 of the real-number      *)
(* value where a double is within about 10^-16 of it.                      *)
(*                                                                         *)
(* The arithmetic is written as functions, whose arguments are values, so  *)
(* that no intermediate result is computed more than once.                 *)
(***************************************************************************)
EXTENDS Integers, Sequences, FiniteSets, TLC

\* F(e), with e evaluated once.
Apply(F(_), e) == CHOOSE r \in {F(v) : v \in {e}} : TRUE

(***************************************************************************)
(* Fixed-point arithmetic                                                  *)
(***************************************************************************)
Base == 100 * 100
Unit == Base * Base
Num  == Int \X Int

FromInt(n) == <<n, 0>>
Dec(i, f)  == <<i, f>>

Zero == FromInt(0)
One  == FromInt(1)
Ulp  == <<0, 1>>

Sign[a \in Num] == IF a[1] < 0 \/ a[2] < 0 THEN -1 ELSE 1
Neg[a \in Num]  == <<-a[1], -a[2]>>
Abs[a \in Num]  == IF Sign[a] < 0 THEN Neg[a] ELSE a
WithSign[s \in Int, a \in Num] == IF s < 0 THEN Neg[a] ELSE a

\* The pair for i + f / 10^8 when |f| < 2 * 10^8 and the signs may differ.
Carried[i \in Int, f \in Int] ==
  IF f >= Unit THEN <<i + 1, f - Unit>>
  ELSE IF f <= -Unit THEN <<i - 1, f + Unit>> ELSE <<i, f>>

SameSigns[a \in Num] ==
  IF a[1] > 0 /\ a[2] < 0 THEN <<a[1] - 1, a[2] + Unit>>
  ELSE IF a[1] < 0 /\ a[2] > 0 THEN <<a[1] + 1, a[2] - Unit>>
  ELSE a

Norm[i \in Int, f \in Int] == SameSigns[Carried[i, f]]

Add[a \in Num, b \in Num]  == Norm[a[1] + b[1], a[2] + b[2]]
Sub[a \in Num, b \in Num]  == Add[a, Neg[b]]
Less[a \in Num, b \in Num] == a[1] < b[1] \/ (a[1] = b[1] /\ a[2] < b[2])
Leq[a \in Num, b \in Num]  == a = b \/ Less[a, b]

\* int(x): truncation toward zero; math.floor(x): toward minus infinity.
Trunc[a \in Num] == a[1]
Floor[a \in Num] == IF a[2] < 0 THEN a[1] - 1 ELSE a[1]

\* The product of two magnitudes, by limbs of four decimal digits: the
\* partial products p of weight Base^-4 .. Base^2 and the carries out of the
\* three lowest.
MulCarry[p \in Seq(Int)] ==
  p[3] + ((p[2] + (Base \div 2) + (p[1] \div Base)) \div Base)

MulSum[p \in Seq(Int), q2 \in Int] ==
  << p[5] + ((p[4] + (q2 \div Base)) \div Base) + (p[6] + p[7] * Base) * Base,
     ((p[4] + (q2 \div Base)) % Base) * Base + (q2 % Base) >>

MulLimbs[x \in Seq(Int), y \in Seq(Int)] ==
  << x[1] * y[1],
     x[1] * y[2] + x[2] * y[1],
     x[1] * y[3] + x[2] * y[2] + x[3] * y[1],
     x[1] * y[4] + x[2] * y[3] + x[3] * y[2] + x[4] * y[1],
     x[2] * y[4] + x[3] * y[3] + x[4] * y[2],
     x[3] * y[4] + x[4] * y[3],
     x[4] * y[4] >>

Limbs[x \in Num] ==
  <<x[2] % Base, x[2] \div Base, x[1] % Base, x[1] \div Base>>

Rounded[p \in Seq(Int)] == MulSum[p, MulCarry[p]]

MulAbs[x \in Num, y \in Num] == Rounded[MulLimbs[Limbs[x], Limbs[y]]]

Mul[a \in Num, b \in Num] == WithSign[Sign[a] * Sign[b], MulAbs[Abs[a], Abs[b]]]

\* A magnitude divided by a small positive integer n (n < 10^5).
DivIntAbs[x \in Num, n \in Int] ==
  LET t1 == (x[1] % n) * Base + (x[2] \div Base)
      t2 == (t1 % n) * Base + (x[2] % Base)
      q  == <<x[1] \div n, (t1 \div n) * Base + (t2 \div n)>>
  IN  IF 2 * (t2 % n) >= n THEN Add[q, Ulp] ELSE q

DivInt[a \in Num, n \in Int] == WithSign[Sign[a], DivIntAbs[Abs[a], n]]

\* One step of long division in base 10 by B < 2 * 10^8: the state
\* <<quotient, remainder>> after bringing down the decimal digit d.
LongStep[s \in Int \X Int, d \in Int, B \in Int] ==
  <<s[1] * 10 + ((s[2] * 10 + d) \div B), (s[2] * 10 + d) % B>>

\* The steps that bring down the digits of src from the one of weight p on.
LongDigits[s \in Int \X Int, src \in Int, p \in Int, B \in Int] ==
  IF p = 0 THEN s
  ELSE LongDigits[LongStep[s, (src \div p) % 10, B], src, p \div 10, B]

\* Both magnitudes divided by ten until the divisor is below 2.
Scaled[x \in Num, y \in Num] ==
  IF y[1] < 2 THEN <<x, y>>
  ELSE Scaled[<<x[1] \div 10, ((x[1] % 10) * Unit + x[2]) \div 10>>,
              <<y[1] \div 10, ((y[1] % 10) * Unit + y[2]) \div 10>>]

\* The quotient from its integer part, the eight fractional digits lo[1]
\* and the remainder lo[2] left after them.
LongRound[q \in Int, lo \in Int \X Int, B \in Int] ==
  IF 2 * lo[2] >= B THEN Add[<<q, lo[1]>>, Ulp] ELSE <<q, lo[1]>>

LongLow[q \in Int, hi \in Int \X Int, B \in Int] ==
  LongRound[q * Unit + hi[1], LongDigits[<<0, hi[2]>>, 0, 10000000, B], B]

LongBy[A \in Num, B \in Int] ==
  LongLow[A[1] \div B, LongDigits[<<0, A[1] % B>>, A[2], 10000000, B], B]

LongScaled[s \in Num \X Num] == LongBy[s[1], s[2][1] * Unit + s[2][2]]

LongDivAbs[x \in Num, y \in Num] == LongScaled[Scaled[x, y]]

\* a / b for b # 0; the quotient of a divisor of 2 or more is corrected once.
LongDiv[a \in Num, b \in Num] ==
  WithSign[Sign[a] * Sign[b], LongDivAbs[Abs[a], Abs[b]]]

Corrected[a \in Num, b \in Num, q0 \in Num] ==
  Add[q0, LongDiv[Sub[a, Mul[q0, b]], b]]

Div[a \in Num, b \in Num] ==
  IF Abs[b][1] < 2 THEN LongDiv[a, b] ELSE Corrected[a, b, LongDiv[a, b]]

(***************************************************************************)
(* The math module: sin, cos, tan, asin, acos, atan, radians, degrees      *)
(***************************************************************************)
Pi        == Dec(3, 14159265)
HalfPi    == Dec(1, 57079633)
QuarterPi == Dec(0, 78539816)
RadToDeg  == Dec(57, 29577951)

radians[d \in Num] == DivInt[Mul[d, Pi], 180]
degrees[r \in Num] == Mul[r, RadToDeg]

\* x - x^3/3! + x^5/5! - ... for 0 <= x <= pi/2: the sum from the given term
\* on, summed until a term vanishes.
SinSum[term \in Num, x2 \in Num, k \in Nat] ==
  IF term = Zero THEN Zero
  ELSE Add[term, SinSum[Neg[DivInt[Mul[term, x2], (2 * k) * (2 * k + 1)]],
                        x2, k + 1]]

SinSeries[x \in Num] == SinSum[x, Mul[x, x], 1]

\* 1 - x^2/2! + x^4/4! - ... for 0 <= x <= pi/2.
CosSum[term \in Num, x2 \in Num, k \in Nat] ==
  IF term = Zero THEN Zero
  ELSE Add[term, CosSum[Neg[DivInt[Mul[term, x2], (2 * k - 1) * (2 * k)]],
                        x2, k + 1]]

CosSeries[x \in Num] == CosSum[One, Mul[x, x], 1]

\* An angle a >= 0 in degrees brought into [0, 360).
Reduce360[a \in Num] ==
  IF a[1] >= 360 THEN Reduce360[Sub[a, FromInt(360)]] ELSE a

\* sin of r degrees, 0 <= r < 180, and 0 <= r < 360.
SinHalfTurn[r \in Num] ==
  SinSeries[radians[IF Less[FromInt(90), r] THEN Sub[FromInt(180), r] ELSE r]]

SinTurn[r \in Num] ==
  IF r[1] >= 180 THEN Neg[SinHalfTurn[Sub[r, FromInt(180)]]] ELSE SinHalfTurn[r]

SinDeg[a \in Num] ==
  IF Sign[a] < 0 THEN Neg[SinTurn[Reduce360[Neg[a]]]] ELSE SinTurn[Reduce360[a]]

\* The cosine of a double is never exactly zero (cos(radians(90.0)) is
\* 6.1e-17), so the smallest positive value stands for a cosine of an angle
\* of the first quadrant that rounds to zero or below.
AboveZero[c \in Num] == IF Less[Zero, c] THEN c ELSE Ulp

\* cos of r degrees for 0 <= r <= 90, 0 <= r <= 180 and 0 <= r < 360.
CosQuarterTurn[r \in Num] == AboveZero[CosSeries[radians[r]]]

CosHalfTurn[h \in Num] ==
  IF Less[FromInt(90), h] THEN Neg[CosQuarterTurn[Sub[FromInt(180), h]]]
  ELSE CosQuarterTurn[h]

\* The second half turn is the first with the sign changed, as
\* cos(radians(270.0)), which is -1.8e-16, is cos(radians(90.0)) with it.
CosTurn[r \in Num] ==
  IF r[1] >= 180 THEN Neg[CosHalfTurn[Sub[r, FromInt(180)]]] ELSE CosHalfTurn[r]

CosDeg[a \in Num] == CosTurn[Reduce360[Abs[a]]]

\* w - w^3/3 + w^5/5 - ... for 0 <= w <= tan(22.5 degrees): the sum from the
\* term of the given power p on.
AtanSum[p \in Num, w2 \in Num, k \in Nat] ==
  IF p = Zero THEN Zero
  ELSE Add[DivInt[p, 2 * k + 1], AtanSum[Neg[Mul[p, w2]], w2, k + 1]]

AtanSeries[w \in Num] == AtanSum[w, Mul[w, w], 0]

Tan22_5 == Dec(0, 41421356)

\* atan in radians: atan(z) = pi/2 - atan(1/z) above 1, and
\* atan(z) = pi/4 - atan((1 - z)/(1 + z)) above tan(22.5 degrees).
AtanUnit[z \in Num] ==
  IF Less[Tan22_5, z]
  THEN Sub[QuarterPi, AtanSeries[Div[Sub[One, z], Add[One, z]]]]
  ELSE AtanSeries[z]

AtanAbs[z \in Num] ==
  IF Less[One, z] THEN Sub[HalfPi, AtanUnit[Div[One, z]]] ELSE AtanUnit[z]

AtanRad[z \in Num] == WithSign[Sign[z], AtanAbs[Abs[z]]]

\* x + x^3/6 + 3x^5/40 + ... for 0 <= x <= 1/2.
AsinSum[term \in Num, x2 \in Num, n \in Nat] ==
  IF term = Zero THEN Zero
  ELSE Add[term,
           AsinSum[DivInt[Mul[Mul[term, x2], FromInt((2 * n + 1) * (2 * n + 1))],
                          (2 * n + 2) * (2 * n + 3)],
                   x2, n + 1]]

AsinSeries[x \in Num] == AsinSum[x, Mul[x, x], 0]

\* The square root of 0 <= v < 1 by Newton's iteration, which descends from a
\* power of ten that is not below the root until the next iterate nx is not
\* below x.
Newton[v \in Num, x \in Num] == DivInt[Add[x, Div[v, x]], 2]

SqrtFrom[v \in Num, x \in Num, nx \in Num] ==
  IF Leq[x, nx] THEN x ELSE SqrtFrom[v, nx, Newton[v, nx]]

SqrtStart[v \in Num] ==
  IF v[2] < 100 THEN Dec(0, 100000)
  ELSE IF v[2] < 10000 THEN Dec(0, 1000000)
  ELSE IF v[2] < 1000000 THEN Dec(0, 10000000)
  ELSE One

SqrtDown[v \in Num, x \in Num] == SqrtFrom[v, x, Newton[v, x]]

Sqrt[v \in Num] == IF Leq[v, Zero] THEN Zero ELSE SqrtDown[v, SqrtStart[v]]

\* asin in radians for |x| <= 1: asin(x) = pi/2 - 2 asin(sqrt((1 - x)/2)) above 1/2.
AsinAbs[x \in Num] ==
  IF x[2] > Unit \div 2 \/ x[1] >= 1
  THEN Sub[HalfPi, Mul[FromInt(2), AsinSeries[Sqrt[DivInt[Sub[One, x], 2]]]]]
  ELSE AsinSeries[x]

AsinRad[x \in Num] == WithSign[Sign[x], AsinAbs[Abs[x]]]
AcosRad[x \in Num] == Sub[HalfPi, AsinRad[x]]

(***************************************************************************)
(* class location: the trigonometric wrappers                              *)
(***************************************************************************)
ss_sin[angle_360 \in Num] == SinDeg[angle_360]
ss_cos[angle_360 \in Num] == CosDeg[angle_360]
ss_tan[angle_360 \in Num] == Div[SinDeg[angle_360], CosDeg[angle_360]]
ss_asin[ss_sine \in Num]    == degrees[AsinRad[ss_sine]]
ss_acos[ss_cosine \in Num]  == degrees[AcosRad[ss_cosine]]
ss_atan[ss_tangent \in Num] == degrees[AtanRad[ss_tangent]]

(***************************************************************************)
(* location.ss_calc.  Its local variables are a record, the frame, which   *)
(* each step extends; Apply hands a step the frame of the step before.     *)
(***************************************************************************)
\* Python's chain "if x > p: x = x - p  elif x < 0.0: x = x + p".
WrapOnce[x \in Num, p \in Num] ==
  IF Less[p, x] THEN Sub[x, p] ELSE IF Less[x, Zero] THEN Add[x, p] ELSE x

OfficialZenith == Add[FromInt(90), Div[FromInt(50), FromInt(60)]]

\* A chain with the angles of civil and nautical exchanged.
ZenithDegSwapped(zenith) ==
  IF zenith = "official" THEN OfficialZenith
  ELSE IF zenith = "civil" THEN FromInt(102)
  ELSE IF zenith = "nautical" THEN FromInt(96)
  ELSE IF zenith = "astronomical" THEN FromInt(108)
  ELSE OfficialZenith

\* A chain whose official angle is 90 degrees, without the 50 minutes.
ZenithDegFlat(zenith) ==
  IF zenith = "civil" THEN FromInt(96)
  ELSE IF zenith = "nautical" THEN FromInt(102)
  ELSE IF zenith = "astronomical" THEN FromInt(108)
  ELSE FromInt(90)

\* The selector's angle; every other string takes the last branch.
ZenithDeg(zenith) ==
  IF zenith = "official" THEN OfficialZenith
  ELSE IF zenith = "civil" THEN FromInt(96)
  ELSE IF zenith = "nautical" THEN FromInt(102)
  ELSE IF zenith = "astronomical" THEN FromInt(108)
  ELSE OfficialZenith

\* The value of the local variable zenith after the chain.
ZenithUsed(zenith) ==
  IF zenith \in {"official", "civil", "nautical", "astronomical"} THEN zenith
  ELSE "default (official)"

\* Step 1 with N3 fixed at 1, as for a year divisible by 4.
DayOfYearLeap(date) ==
  LET N1 == (275 * date.month) \div 9
      N2 == (date.month + 9) \div 12
  IN  N1 - N2 + date.day - 30

\* Step 1, on Python ints: math.floor of a quotient of positive ints is \div.
DayOfYear(date) ==
  LET N1 == (275 * date.month) \div 9
      N2 == (date.month + 9) \div 12
      N3 == 1 + ((date.year - 4 * (date.year \div 4) + 2) \div 3)
  IN  N1 - (N2 * N3) + date.day - 30

\* The zenith, step 1, and step 2's longitude in hours.
Start(self, date, zenith, rising) ==
  [ self |-> self, date |-> date, rising |-> rising,
    zenith |-> ZenithUsed(zenith), zenith_deg |-> ZenithDeg(zenith),
    N |-> DayOfYear(date), lngHour |-> DivInt[self.longitude, 15] ]

\* Step 2: t = N + ((6 - lngHour) / 24), or 18 for a setting time.
ApproximateTime(f) ==
  f @@ [ t |-> Add[FromInt(f.N),
                   DivInt[Sub[FromInt(IF f.rising THEN 6 ELSE 18), f.lngHour], 24]] ]

\* Step 3: M = (360 / 365.2596358) * t - 3.289
MeanAnomaly(f) ==
  f @@ [ mean_anomaly |->
           Sub[Mul[Div[FromInt(360), Dec(365, 25963580)], f.t], Dec(3, 28900000)] ]

\* Step 4: L = M + 1.916 sin(M) + 0.020 sin(2 M) + 282.634, then one wrap.
Wrapped360(f, L) ==
  f @@ [ unwrapped_longitude |-> L, sun_true_longitude |-> WrapOnce[L, FromInt(360)] ]

TrueLongitude(f) ==
  Apply(LAMBDA L : Wrapped360(f, L),
        Add[Add[Add[f.mean_anomaly, Mul[Dec(1, 91600000), ss_sin[f.mean_anomaly]]],
                Mul[Dec(0, 2000000), ss_sin[Mul[FromInt(2), f.mean_anomaly]]]],
            Dec(282, 63400000)])

\* math.floor(x / 90.0) * 90.0
Quadrant[x \in Num] == FromInt((Floor[x] \div 90) * 90)

\* Steps 5a to 5c: RA = atan(0.91764 tan(L)), one wrap, L's quadrant, hours.
InQuadrant[RA \in Num, L \in Num] == Add[RA, Sub[Quadrant[L], Quadrant[RA]]]

Ascended(f, RA) ==
  f @@ [ unquadranted_ascension |-> RA,
         right_ascension |-> InQuadrant[RA, f.sun_true_longitude],
         right_ascension_hours |-> DivInt[InQuadrant[RA, f.sun_true_longitude], 15] ]

RightAscension(f) ==
  Apply(LAMBDA RA : Ascended(f, RA),
        WrapOnce[ss_atan[Mul[Dec(0, 91764000), ss_tan[f.sun_true_longitude]]],
                 FromInt(360)])

\* Step 6: sinDec = 0.39782 sin(L) and cosDec = cos(asin(sinDec)).
Declined(f, sinDec) ==
  f @@ [ sinDec |-> sinDec, cosDec |-> ss_cos[ss_asin[sinDec]] ]

Declination(f) ==
  Apply(LAMBDA sinDec : Declined(f, sinDec),
        Mul[Dec(0, 39782000), ss_sin[f.sun_true_longitude]])

\* Step 7a: the two sides of the quotient cosH.
HourAngleCosine(f) ==
  f @@ [ numerator   |-> Sub[ss_cos[f.zenith_deg],
                             Mul[f.sinDec, ss_sin[f.self.latitude]]],
         denominator |-> Mul[f.cosDec, ss_cos[f.self.latitude]] ]

SolarFrame(self, date, zenith, rising) ==
  Apply(HourAngleCosine,
    Apply(Declination,
      Apply(RightAscension,
        Apply(TrueLongitude,
          Apply(MeanAnomaly,
            Apply(ApproximateTime, Start(self, date, zenith, rising)))))))

\* The messages ss_calc hands to self.message, as <<verbosity, text>>: up to
\* step 6, around cosH, and from step 7b on.
FrameMessages ==
  << <<2, "Using zenith">>, <<2, "Day of the year">>,
     <<3, "Longitude expressed in hours">>, <<3, "Approximate time">>,
     <<3, "Sun's mean anomaly">>, <<3, "Sun's true longitude">>,
     <<3, "Sun's right ascension before quadrant calculation">>,
     <<3, "Sun's right ascension">>, <<3, "Sun's right ascension in hours">>,
     <<3, "Sun's declination">> >>

HourAngleMessages(cosH) ==
  << <<3, "Sun's local hour angle">> >>
  \o (IF Less[One, cosH]
      THEN << <<1, "The sun never rises on this location (on the specified date).">> >>
      ELSE <<>>)
  \o (IF Less[cosH, Neg[One]]
      THEN << <<1, "The sun never sets on this location (on the specified date).">> >>
      ELSE <<>>)

TimeMessages(rising) ==
  << <<3, "Sun time (hours)">>, <<3, "Local mean time">>,
     <<3, IF rising THEN "Rising time (UTC)" ELSE "Setting time (UTC)">>,
     <<2, "local_hour, local_minute, local_second">> >>

\* Those of the messages that local_template.message prints at a level.
Shown(level, msgs) == SelectSeq(msgs, LAMBDA m : m[1] <= level)

\* The outcome of a call: the exception that left it ("none" when it
\* returned), the value returned (<<>> when it raised), the local variables
\* at its end and the messages handed to self.message in order.
Outcome(raised, value, frame, msgs) ==
  [raised |-> raised, value |-> value, frame |-> frame, msgs |-> msgs]

\* math.acos raises ValueError("math domain error") outside [-1, 1].
AcosDefined(x) == Leq[Neg[One], x] /\ Leq[x, One]

\* A constructor that takes any hour, minute and second.
AcceptsAny(hour, minute, second) == TRUE

\* datetime.datetime(year, month, day, hour, minute, second, tzinfo) accepts
\* only hour 0..23, minute 0..59 and second 0..59 (the date is a datetime.date's).
DatetimeAccepts(hour, minute, second) ==
  /\ hour   \in 0..23
  /\ minute \in 0..59
  /\ second \in 0..59

\* The timestamp without a tzinfo argument.
DatetimeNaive(date, hour, minute, second) ==
  [ year |-> date.year, month |-> date.month, day |-> date.day,
    hour |-> hour, minute |-> minute, second |-> second, tzinfo |-> "none" ]

\* The timestamp the last statement builds, with tzinfo=tz.tzutc().
Datetime(date, hour, minute, second) ==
  [ year |-> date.year, month |-> date.month, day |-> date.day,
    hour |-> hour, minute |-> minute, second |-> second, tzinfo |-> "UTC" ]

\* The return statement: the constructor raises ValueError on a field out of
\* range.
Return(f) ==
  IF DatetimeAccepts(f.local_hour, f.local_minute, f.local_second)
  THEN Outcome("none",
               << Datetime(f.date, f.local_hour, f.local_minute, f.local_second) >>,
               f,
               FrameMessages \o HourAngleMessages(f.cosH) \o TimeMessages(f.rising))
  ELSE Outcome("ValueError", <<>>, f,
               FrameMessages \o HourAngleMessages(f.cosH) \o TimeMessages(f.rising))

\* Step 10: int() of the hour, of the minutes and of the seconds left.
Decomposed(f) ==
  LET local_hour       == Trunc[f.UTC]
      local_minute_dec == Sub[f.UTC, FromInt(local_hour)]
      local_minute     == Trunc[Mul[local_minute_dec, FromInt(60)]]
      local_second_dec == Sub[Sub[f.UTC, FromInt(local_hour)],
                              DivInt[FromInt(local_minute), 60]]
      local_second     == Trunc[Mul[local_second_dec, FromInt(3600)]]
  IN  f @@ [ local_hour |-> local_hour, local_minute |-> local_minute,
             local_second |-> local_second ]

\* Steps 7b (the division by 15), 8 and 9: T = H + RA - 0.06571 t - 6.622,
\* UTC = T - lngHour, then one wrap.
UniversalTime(f) ==
  LET hour == DivInt[f.hour_angle, 15]
      local_mean_time ==
        Sub[Sub[Add[hour, f.right_ascension_hours], Mul[Dec(0, 6571000), f.t]],
            Dec(6, 62200000)]
      UTC == Sub[local_mean_time, f.lngHour]
  IN  f @@ [ hour |-> hour, local_mean_time |-> local_mean_time,
             unwrapped_UTC |-> UTC, UTC |-> WrapOnce[UTC, FromInt(24)] ]

\* Step 7b: self.ss_acos(cosH) is called with cosH whatever its value
\* (ss_cosine is ss_acos's parameter), and math.acos raises outside [-1, 1].
AcosReturned(f, acos) ==
  f @@ [ hour_angle |-> IF f.rising THEN Sub[FromInt(360), acos] ELSE acos ]

HourAngle(f) ==
  IF AcosDefined(f.ss_cosine)
  THEN Apply(Return,
         Apply(Decomposed,
           Apply(UniversalTime,
             Apply(LAMBDA acos : AcosReturned(f, acos), ss_acos[f.ss_cosine]))))
  ELSE Outcome("ValueError", <<>>, f, FrameMessages \o HourAngleMessages(f.cosH))

\* Step 7a's division, which raises ZeroDivisionError on a zero denominator,
\* and the call of ss_acos.
Quotient(f) ==
  IF f.denominator = Zero
  THEN Outcome("ZeroDivisionError", <<>>, f, FrameMessages)
  ELSE Apply(HourAngle,
             Apply(LAMBDA cosH : f @@ [cosH |-> cosH, ss_cosine |-> cosH],
                   Div[f.numerator, f.denominator]))

\* ss_calc(self, date, zenith, rising): self is the location object's fields.
ss_calc(self, date, zenith, rising) ==
  Apply(Quotient, SolarFrame(self, date, zenith, rising))

\* location.sunrise and location.sunset: the message after the call is
\* reached only when ss_calc returned.
Announced(o, before, after) ==
  [o EXCEPT !.msgs = << <<1, before>> >> \o @
                     \o (IF o.raised = "none" THEN << <<1, after>> >> ELSE <<>>)]

sunrise(self, date, zenith) ==
  Apply(LAMBDA o : Announced(o, "sunrise method called", "Sunrise is"),
        ss_calc(self, date, zenith, TRUE))

sunset(self, date, zenith) ==
  Apply(LAMBDA o : Announced(o, "sunset method called", "Sunset is"),
        ss_calc(self, date, zenith, FALSE))

(***************************************************************************)
(* datetime: calendar dates and the difference of two timestamps           *)
(***************************************************************************)
Date(y, m, d) == [year |-> y, month |-> m, day |-> d]

\* calendar.isleap and the month lengths datetime.date checks a day against.
IsLeap(y) == y % 4 = 0 /\ (y % 100 # 0 \/ y % 400 = 0)

DaysInMonth(y, m) ==
  IF m = 2 THEN (IF IsLeap(y) THEN 29 ELSE 28)
  ELSE IF m \in {4, 6, 9, 11} THEN 30 ELSE 31

\* datetime.date(year, month, day) accepts exactly these.
ValidDate(d) ==
  /\ d.year \in 1..9999
  /\ d.month \in 1..12
  /\ d.day \in 1..DaysInMonth(d.year, d.month)

\* date.toordinal(): 1 for 1 January of year 1.
RECURSIVE DaysBeforeMonth(_, _)
DaysBeforeMonth(y, m) ==
  IF m = 1 THEN 0 ELSE DaysBeforeMonth(y, m - 1) + DaysInMonth(y, m - 1)

Ordinal(d) ==
  LET y == d.year - 1
  IN  365 * y + (y \div 4) - (y \div 100) + (y \div 400)
      + DaysBeforeMonth(d.year, d.month) + d.day

\* a - b for two timestamps of the same tzinfo: a timedelta, as
\* [days, seconds] with 0 <= seconds < 86400.
TimeDelta(a, b) ==
  LET s == (a.hour - b.hour) * 3600 + (a.minute - b.minute) * 60
           + (a.second - b.second)
      d == Ordinal(a) - Ordinal(b)
  IN  IF s < 0 THEN [days |-> d - 1, seconds |-> s + 86400]
      ELSE [days |-> d, seconds |-> s]

\* timedelta > timedelta(0)
Positive(delta) == delta.days > 0 \/ (delta.days = 0 /\ delta.seconds > 0)

(***************************************************************************)
(* The program state: a location object and its caller                     *)
(***************************************************************************)
VARIABLES
  latitude,    \* self.latitude of the location object
  longitude,   \* self.longitude
  verbose,     \* self.verbose
  date_given,  \* the caller's date
  zenith,      \* the caller's zenith selector
  calls,       \* the calls made on the object so far, each with its outcome
  printed      \* the lines printed so far

vars == <<latitude, longitude, verbose, date_given, zenith, calls, printed>>

Self == [latitude |-> latitude, longitude |-> longitude, verbose |-> verbose]

\* local_template.message applied to each message in turn: the texts printed.
Lines(level, msgs) ==
  LET shown == Shown(level, msgs) IN [i \in 1..Len(shown) |-> shown[i][2]]

\* local_template.set_verbose(verbosity) on a level old: what it prints.
SetVerboseLines(old, verbosity) ==
  IF old # verbosity /\ verbosity > 0
  THEN << "set_verbose - Altering verbose" >> ELSE <<>>

\* location(latitude, longitude, verbose): the object after __init__, which
\* starts from local_template's level 1.
Constructed(lat, lng, v) ==
  /\ latitude = lat
  /\ longitude = lng
  /\ verbose = v
  /\ calls = <<>>
  /\ printed = SetVerboseLines(1, v)
               \o Lines(v, << <<1, "location class constructor">> >>)

\* One entry of calls.
CallRecord(method, args, o) ==
  [ method |-> method, args |-> args, raised |-> o.raised, value |-> o.value,
    frame |-> o.frame, msgs |-> o.msgs ]

Returned(c) == c.raised = "none"

\* A sunrise that kept the longitude in hours in self.longitude.
CallSunriseKeeping(date, zen) ==
  \E o \in {sunrise(Self, date, zen)} :
    /\ calls' = Append(calls, CallRecord("sunrise", <<date, zen>>, o))
    /\ printed' = printed \o Lines(verbose, o.msgs)
    /\ longitude' = o.frame.lngHour
    /\ UNCHANGED <<latitude, verbose, date_given, zenith>>

\* The caller runs self.sunrise(date, zen) and keeps what comes of it.
CallSunrise(date, zen) ==
  \E o \in {sunrise(Self, date, zen)} :
    /\ calls' = Append(calls, CallRecord("sunrise", <<date, zen>>, o))
    /\ printed' = printed \o Lines(verbose, o.msgs)
    /\ UNCHANGED <<latitude, longitude, verbose, date_given, zenith>>

CallSunset(date, zen) ==
  \E o \in {sunset(Self, date, zen)} :
    /\ calls' = Append(calls, CallRecord("sunset", <<date, zen>>, o))
    /\ printed' = printed \o Lines(verbose, o.msgs)
    /\ UNCHANGED <<latitude, longitude, verbose, date_given, zenith>>

(***************************************************************************)
(* The caller of main (sunrise_sunset.py, winchester.py) and of the tests: *)
(* one location, one date and zenith, sunrise then sunset, or either alone *)
(***************************************************************************)
Latitudes ==
  { Dec(-90, 0), Dec(-33, -87000000), Zero, Dec(51, 6320000), Dec(51, 41416666),
    Dec(73, 50000000), Dec(78, 0), Dec(90, 0) }

Longitudes ==
  { Dec(-180, 0), Dec(-1, -51500000), Dec(-1, -30800000), Zero, Dec(150, 0),
    Dec(180, 0) }

Dates ==
  { Date(2022, 1, 31), Date(2022, 3, 21), Date(2022, 6, 21), Date(2022, 11, 22),
    Date(2022, 12, 21), Date(2024, 12, 31) }

\* The four selectors of the documentation and one that is none of them.
KnownZeniths == {"official", "civil", "nautical", "astronomical"}
Zeniths      == KnownZeniths \cup {"golden"}

Init ==
  /\ \E lat \in Latitudes, lng \in Longitudes : Constructed(lat, lng, 1)
  /\ date_given \in Dates
  /\ zenith \in Zeniths

\* sun_rise = new_place.sunrise(date_given, zenith), the first call.
Sunrise ==
  /\ calls = <<>>
  /\ CallSunrise(date_given, zenith)

\* sun_set = new_place.sunset(date_given, zenith): after a sunrise that
\* returned, or as the only call.
Sunset ==
  /\ \/ calls = <<>>
     \/ Len(calls) = 1 /\ calls[1].method = "sunrise" /\ Returned(calls[1])
  /\ CallSunset(date_given, zenith)

Next == Sunrise \/ Sunset

Spec == Init /\ [][Next]_vars

(***************************************************************************)
(* Any caller of one location object: sunrise, sunset and set_verbose in   *)
(* any order, for any of a few dates, MaxCalls calls at most               *)
(***************************************************************************)
MaxCalls == 3

ObjLatitudes  == { Dec(51, 41416666), Dec(78, 0) }
ObjLongitudes == { Dec(-1, -51500000) }
ObjDates      == { Date(2022, 6, 21), Date(2022, 11, 22), Date(2022, 12, 21) }
Verbosities   == { 0, 2 }

InitObj ==
  /\ \E lat \in ObjLatitudes, lng \in ObjLongitudes : Constructed(lat, lng, 1)
  /\ date_given \in ObjDates
  /\ zenith = "official"

AnotherSunrise ==
  /\ Len(calls) < MaxCalls
  /\ CallSunrise(date_given, zenith)

AnotherSunset ==
  /\ Len(calls) < MaxCalls
  /\ CallSunset(date_given, zenith)

\* self.set_verbose(verbosity): returns the level in force before it.
SetVerbose ==
  /\ Len(calls) < MaxCalls
  /\ \E verbosity \in Verbosities :
       /\ verbose' = verbosity
       /\ calls' = Append(calls,
            CallRecord("set_verbose", <<verbosity>>,
                       Outcome("none", <<verbose>>,
                               [self |-> Self, verbosity |-> verbosity,
                                old_verbosity |-> verbose],
                               <<>>)))
       /\ printed' = printed \o SetVerboseLines(verbose, verbosity)
  /\ UNCHANGED <<latitude, longitude, date_given, zenith>>

\* self.push_verbose(verbosity) and self.pop_verbose() on the object self, a
\* record of its attributes: both begin by reading self.verbose_stack, which
\* raises AttributeError on an object that has no such attribute; set_verbose
\* does the rest.  The frame's verbose is the level after the call.
push_verbose(self, verbosity) ==
  IF "verbose_stack" \notin DOMAIN self
  THEN Outcome("AttributeError", <<>>,
               [self |-> self, verbosity |-> verbosity, verbose |-> self.verbose], <<>>)
  ELSE Outcome("none", << self.verbose >>,
               [self |-> self, verbosity |-> verbosity, verbose |-> verbosity,
                verbose_stack |-> Append(self.verbose_stack, self.verbose)],
               [i \in DOMAIN SetVerboseLines(self.verbose, verbosity) |->
                  <<0, SetVerboseLines(self.verbose, verbosity)[i]>>])

pop_verbose(self) ==
  IF "verbose_stack" \notin DOMAIN self
  THEN Outcome("AttributeError", <<>>, [self |-> self, verbose |-> self.verbose], <<>>)
  ELSE LET verbosity == IF Len(self.verbose_stack) > 0
                        THEN self.verbose_stack[Len(self.verbose_stack)] ELSE 0
       IN  Outcome("none", << self.verbose >>,
                   [self |-> self, verbosity |-> verbosity, verbose |-> verbosity,
                    verbose_stack |->
                      IF Len(self.verbose_stack) > 0
                      THEN SubSeq(self.verbose_stack, 1, Len(self.verbose_stack) - 1)
                      ELSE <<>>],
                   [i \in DOMAIN SetVerboseLines(self.verbose, verbosity) |->
                      <<0, SetVerboseLines(self.verbose, verbosity)[i]>>])

\* A call of one of the two on the object; its attributes are those that
\* local_template.__init__ and location.__init__ assign.
CallVerbose(method, args, o) ==
  /\ calls' = Append(calls, CallRecord(method, args, o))
  /\ verbose' = o.frame.verbose
  /\ printed' = printed \o Lines(o.frame.verbose, o.msgs)
  /\ UNCHANGED <<latitude, longitude, date_given, zenith>>

PushVerbose ==
  /\ Len(calls) < MaxCalls
  /\ \E verbosity \in Verbosities :
       CallVerbose("push_verbose", <<verbosity>>, push_verbose(Self, verbosity))

PopVerbose ==
  /\ Len(calls) < MaxCalls
  /\ CallVerbose("pop_verbose", <<>>, pop_verbose(Self))

\* The caller turns to another date.
NewDate ==
  /\ \E d \in ObjDates \ {date_given} : date_given' = d
  /\ UNCHANGED <<latitude, longitude, verbose, zenith, calls, printed>>

NextObj ==
  AnotherSunrise \/ AnotherSunset \/ SetVerbose \/ PushVerbose \/ PopVerbose \/ NewDate

SpecObj == InitObj /\ [][NextObj]_vars

(***************************************************************************)
(* winchester.py's main: Winchester on every date of a few years           *)
(***************************************************************************)
DoyYears == { 2023, 2024, 2100 }

DoyDates ==
  { d \in { Date(y, m, dd) : y \in DoyYears, m \in 1..12, dd \in 1..31 } :
      ValidDate(d) }

InitDoy ==
  /\ Constructed(Dec(51, 6320000), Dec(-1, -30800000), 0)
  /\ date_given \in DoyDates
  /\ zenith = "official"

SpecDoy == InitDoy /\ [][Next]_vars

(***************************************************************************)
(* Properties                                                              *)
(***************************************************************************)
\* The calls of sunrise and sunset among the calls made.
SolarCalls == { i \in DOMAIN calls : calls[i].method \in {"sunrise", "sunset"} }

\* The calls in which ss_calc got as far as cosH.
CosHCalls == { i \in SolarCalls : "cosH" \in DOMAIN calls[i].frame }

\* What valid_latitude, valid_longitude, valid_date and --zenith's choices
\* let through.
Validated(c) ==
  /\ Leq[FromInt(-90), c.frame.self.latitude]
  /\ Leq[c.frame.self.latitude, FromInt(90)]
  /\ Leq[FromInt(-180), c.frame.self.longitude]
  /\ Leq[c.frame.self.longitude, FromInt(180)]
  /\ ValidDate(c.args[1])
  /\ c.args[2] \in KnownZeniths

\* C1: whenever cosH is above 1 or below -1 the call raises and returns no
\* timestamp, and the exception is PolarNight when cosH > 1 and PolarDay when
\* cosH < -1.
C1_PolarKinds ==
  \A i \in CosHCalls :
    /\ Less[One, calls[i].frame.cosH] =>
         calls[i].raised = "PolarNight" /\ calls[i].value = <<>>
    /\ Less[calls[i].frame.cosH, Neg[One]] =>
         calls[i].raised = "PolarDay" /\ calls[i].value = <<>>

\* C2: ss_acos is only ever called with an argument in [-1, 1].
C2_AcosArgumentInRange ==
  \A i \in SolarCalls :
    "ss_cosine" \in DOMAIN calls[i].frame => AcosDefined(calls[i].frame.ss_cosine)

\* C3: a call on validated input whose cosH is in [-1, 1] returns a timestamp.
C3_ValidatedSucceeds ==
  \A i \in CosHCalls :
    Validated(calls[i]) /\ AcosDefined(calls[i].frame.cosH) =>
      Returned(calls[i]) /\ Len(calls[i].value) = 1

\* C4: every timestamp returned has its hour in 0..23, its minute in 0..59
\* and its second in 0..59.
C4_FieldsInRange ==
  \A i \in SolarCalls :
    Returned(calls[i]) =>
      /\ calls[i].value[1].hour   \in 0..23
      /\ calls[i].value[1].minute \in 0..59
      /\ calls[i].value[1].second \in 0..59

\* A sunrise or sunset has returned whose UTC was below 0 and had 24 added.
C4_Witness ==
  \E i \in SolarCalls :
    /\ Returned(calls[i])
    /\ Less[calls[i].frame.unwrapped_UTC, Zero]
    /\ calls[i].frame.UTC = Add[calls[i].frame.unwrapped_UTC, FromInt(24)]

\* C5: a call with a zenith that is none of the four selectors raises
\* InvalidZenith and returns no timestamp.
C5_UnknownZenithRejected ==
  \A i \in SolarCalls :
    calls[i].args[2] \notin KnownZeniths =>
      calls[i].raised = "InvalidZenith" /\ calls[i].value = <<>>

\* C6: two calls of the same method with the same arguments have the same
\* outcome, whatever calls were made in between, and at every call the
\* object's latitude and longitude were the ones it has now.
C6_SameArgumentsSameOutcome ==
  /\ \A i \in SolarCalls, j \in SolarCalls :
       calls[i].method = calls[j].method /\ calls[i].args = calls[j].args =>
         calls[i].raised = calls[j].raised /\ calls[i].value = calls[j].value
  /\ \A i \in DOMAIN calls :
       /\ calls[i].frame.self.latitude = latitude
       /\ calls[i].frame.self.longitude = longitude

\* The same sunrise was asked for twice, with a set_verbose that changed the
\* level in between.
C6_Witness ==
  /\ Len(calls) = 3
  /\ calls[1].method = "sunrise"
  /\ calls[2].method = "set_verbose"
  /\ calls[2].frame.old_verbosity # calls[2].frame.verbosity
  /\ calls[3].method = "sunrise"
  /\ calls[3].args = calls[1].args
  /\ Returned(calls[1])

\* C7: when sunrise and sunset both return for the same validated location,
\* date and zenith, sunset - sunrise is greater than zero.
C7_DayLengthPositive ==
  Len(calls) = 2 /\ Validated(calls[1]) /\ Returned(calls[1]) /\ Returned(calls[2])
    => Positive(TimeDelta(calls[2].value[1], calls[1].value[1]))

\* C8: every timestamp returned carries the year, month and day of the date
\* passed in and the UTC tzinfo, also when the hour was wrapped by 24.
C8_DateKept ==
  \A i \in SolarCalls :
    Returned(calls[i]) =>
      /\ calls[i].value[1].year  = calls[i].args[1].year
      /\ calls[i].value[1].month = calls[i].args[1].month
      /\ calls[i].value[1].day   = calls[i].args[1].day
      /\ calls[i].value[1].tzinfo = "UTC"

\* A sunrise or sunset has returned whose UTC was above 24 and had 24 taken off.
C8_Witness ==
  \E i \in SolarCalls :
    /\ Returned(calls[i])
    /\ Less[FromInt(24), calls[i].frame.unwrapped_UTC]
    /\ calls[i].frame.UTC = Sub[calls[i].frame.unwrapped_UTC, FromInt(24)]

TestCase(c) ==
  /\ c.frame.self.latitude = Dec(51, 41416666)
  /\ c.frame.self.longitude = Dec(-1, -51500000)
  /\ c.args = << Date(2022, 11, 22), "official" >>

HourMinuteSecond(c) == << c.value[1].hour, c.value[1].minute, c.value[1].second >>

\* C10: at 51.41416666, -1.515 on 2022-11-22 with the official zenith,
\* sunrise returns 07:34:44 and sunset returns 16:08:55.
C10_TestVector ==
  \A i \in SolarCalls :
    TestCase(calls[i]) =>
      /\ Returned(calls[i])
      /\ calls[i].method = "sunrise" => HourMinuteSecond(calls[i]) = <<7, 34, 44>>
      /\ calls[i].method = "sunset"  => HourMinuteSecond(calls[i]) = <<16, 8, 55>>

\* Both calls of the tests' case have been made.
C10_Witness ==
  /\ Len(calls) = 2
  /\ TestCase(calls[1]) /\ calls[1].method = "sunrise"
  /\ TestCase(calls[2]) /\ calls[2].method = "sunset"

(***************************************************************************)
(* A caller that asks one location for the sunrise and the sunset of one   *)
(* date with each zenith selector in turn                                  *)
(***************************************************************************)
ZenithOrder == << "official", "civil", "nautical", "astronomical" >>

ZenithIndex(z) == CHOOSE i \in DOMAIN ZenithOrder : ZenithOrder[i] = z

ZenLatitudes  == { Dec(-33, -87000000), Zero, Dec(51, 41416666) }
ZenLongitudes == { Dec(-90, 0), Dec(-1, -51500000), Dec(90, 0), Dec(150, 0) }
ZenDates ==
  { Date(2022, 3, 21), Date(2022, 6, 21), Date(2022, 11, 22), Date(2022, 12, 21) }

InitZen ==
  /\ \E lat \in ZenLatitudes, lng \in ZenLongitudes : Constructed(lat, lng, 1)
  /\ date_given \in ZenDates
  /\ zenith = ZenithOrder[1]

\* The calls made so far with the caller's present zenith.
WithZenith == { i \in DOMAIN calls : calls[i].args[2] = zenith }

ZenSunrise ==
  /\ WithZenith = {}
  /\ CallSunrise(date_given, zenith)

ZenSunset ==
  /\ Cardinality(WithZenith) = 1
  /\ CallSunset(date_given, zenith)

NextZenith ==
  /\ Cardinality(WithZenith) = 2
  /\ ZenithIndex(zenith) < Len(ZenithOrder)
  /\ zenith' = ZenithOrder[ZenithIndex(zenith) + 1]
  /\ UNCHANGED <<latitude, longitude, verbose, date_given, calls, printed>>

NextZen == ZenSunrise \/ ZenSunset \/ NextZenith

SpecZen == InitZen /\ [][NextZen]_vars

\* C11: when the sunrise and the sunset of a date are returned for all four
\* zeniths, a sunrise with a selector later in the order official, civil,
\* nautical, astronomical is not after one with an earlier selector, and a
\* sunset with a later selector is not before one with an earlier selector.
C11_TwilightOrder ==
  (Len(calls) = 8 /\ \A i \in DOMAIN calls : Returned(calls[i])) =>
    \A i \in DOMAIN calls, j \in DOMAIN calls :
      /\ calls[i].method = calls[j].method
      /\ ZenithIndex(calls[i].args[2]) < ZenithIndex(calls[j].args[2])
      => IF calls[i].method = "sunrise"
         THEN ~Positive(TimeDelta(calls[j].value[1], calls[i].value[1]))
         ELSE ~Positive(TimeDelta(calls[i].value[1], calls[j].value[1]))

(***************************************************************************)
(* A caller that asks for the sunrise of one date at one latitude, at one  *)
(* longitude after another from west to east, with a location object each  *)
(***************************************************************************)
LngLatitudes  == { Dec(-33, -87000000), Zero, Dec(51, 41416666), Dec(78, 0) }
\* At 111.075973 the true longitude of the sunrise of 21 March 2022 comes to
\* 360 before the wrap.
LngLongitudes ==
  { Dec(-180, 0), Dec(-90, 0), Dec(-1, -51500000), Zero, Dec(90, 0),
    Dec(111, 7597300), Dec(150, 0), Dec(180, 0) }
LngDates ==
  { Date(2022, 3, 21), Date(2022, 6, 21), Date(2022, 11, 22), Date(2022, 12, 21) }
LngZeniths == { "official", "civil" }

\* The longitudes east of lng, and the nearest of them.
EastOf(lng) == { l \in LngLongitudes : Less[lng, l] }
NextEast(lng) == CHOOSE l \in EastOf(lng) : \A k \in EastOf(lng) : Leq[l, k]

InitLng ==
  /\ \E lat \in LngLatitudes :
       Constructed(lat, CHOOSE l \in LngLongitudes : EastOf(l) = LngLongitudes \ {l}, 1)
  /\ date_given \in LngDates
  /\ zenith \in LngZeniths

\* The calls made on a location of the present longitude.
AtLongitude == { i \in DOMAIN calls : calls[i].frame.self.longitude = longitude }

LngSunrise ==
  /\ AtLongitude = {}
  /\ CallSunrise(date_given, zenith)

\* location(latitude, lng, verbose) for the next longitude: the new object's
\* fields take the place of the old one's.
Relocate ==
  /\ AtLongitude # {}
  /\ EastOf(longitude) # {}
  /\ longitude' = NextEast(longitude)
  /\ printed' = printed \o SetVerboseLines(1, verbose)
                        \o Lines(verbose, << <<1, "location class constructor">> >>)
  /\ UNCHANGED <<latitude, verbose, date_given, zenith, calls>>

NextLng == LngSunrise \/ Relocate

SpecLng == InitLng /\ [][NextLng]_vars

\* C12: of two sunrises returned for the same latitude, date and zenith, the
\* one for the greater longitude is the earlier timestamp.
C12_EastRisesEarlier ==
  \A i \in DOMAIN calls, j \in DOMAIN calls :
    /\ Returned(calls[i]) /\ Returned(calls[j])
    /\ Less[calls[i].frame.self.longitude, calls[j].frame.self.longitude]
    => Positive(TimeDelta(calls[i].value[1], calls[j].value[1]))

\* C13: a call with official computes with 90 + 50/60 degrees, one with civil
\* with 96, one with nautical with 102 and one with astronomical with 108,
\* and the angle grows strictly along official, civil, nautical, astronomical.
C13_ZenithAngles ==
  \A i \in SolarCalls :
    /\ calls[i].args[2] = "official"     => calls[i].frame.zenith_deg = Dec(90, 83333333)
    /\ calls[i].args[2] = "civil"        => calls[i].frame.zenith_deg = FromInt(96)
    /\ calls[i].args[2] = "nautical"     => calls[i].frame.zenith_deg = FromInt(102)
    /\ calls[i].args[2] = "astronomical" => calls[i].frame.zenith_deg = FromInt(108)
    /\ \A j \in SolarCalls :
         ZenithIndex(calls[i].args[2]) < ZenithIndex(calls[j].args[2]) =>
           Less[calls[i].frame.zenith_deg, calls[j].frame.zenith_deg]

\* Calls have been made with each of the four selectors.
C13_Witness ==
  { calls[i].args[2] : i \in SolarCalls } = KnownZeniths

(***************************************************************************)
(* The validators of the command line.  A Python str is a sequence of      *)
(* one-character strings; the strings considered are made of the digits,   *)
(* ".", "+", "-", "_", the space and the letters a, b, c, f, i, n.         *)
(***************************************************************************)
DigitChars == << "0", "1", "2", "3", "4", "5", "6", "7", "8", "9" >>

IsDigit(c) == \E i \in DOMAIN DigitChars : DigitChars[i] = c

DigitValue(c) == (CHOOSE i \in DOMAIN DigitChars : DigitChars[i] = c) - 1

\* The number of spaces at the start and at the end of s.
LeadingSpaces(s) ==
  CHOOSE k \in 0..Len(s) :
    /\ \A i \in 1..k : s[i] = " "
    /\ k = Len(s) \/ s[k + 1] # " "

TrailingSpaces(s) ==
  CHOOSE k \in 0..Len(s) :
    /\ \A i \in (Len(s) - k + 1)..Len(s) : s[i] = " "
    /\ k = Len(s) \/ s[Len(s) - k] # " "

\* What float() and int() do first: s.strip().
Strip(s) ==
  IF LeadingSpaces(s) = Len(s) THEN <<>>
  ELSE SubSeq(s, LeadingSpaces(s) + 1, Len(s) - TrailingSpaces(s))

Unsigned(t) == IF t # <<>> /\ t[1] \in {"+", "-"} THEN Tail(t) ELSE t

\* The value of a run of digits, and of a run of digits as the fraction
\* after a point, in units of 10^-8 and rounded on the ninth digit.
DigitsValue(d) ==
  LET v[k \in 0..Len(d)] == IF k = 0 THEN 0 ELSE 10 * v[k - 1] + DigitValue(d[k])
  IN  v[Len(d)]

FractionValue(d) ==
  LET digit(k) == IF k <= Len(d) THEN DigitValue(d[k]) ELSE 0
      v[k \in 0..8] == IF k = 0 THEN 0 ELSE 10 * v[k - 1] + digit(k)
  IN  v[8] + (IF digit(9) >= 5 THEN 1 ELSE 0)

\* A float: a finite number, an infinity or a NaN.
Float(kind, num) == [kind |-> kind, num |-> num]

\* The decimal literals of float(): digits with at most one point and at
\* least one digit, single underscores allowed between digits.
IsDecimal(u) ==
  /\ \A i \in DOMAIN u : IsDigit(u[i]) \/ u[i] \in {".", "_"}
  /\ Cardinality({ i \in DOMAIN u : u[i] = "." }) <= 1
  /\ \E i \in DOMAIN u : IsDigit(u[i])
  /\ \A i \in DOMAIN u :
       u[i] = "_" => i > 1 /\ i < Len(u) /\ IsDigit(u[i - 1]) /\ IsDigit(u[i + 1])

DecimalValue(u) ==
  LET d == SelectSeq(u, LAMBDA c : c # "_")
      p == IF \E i \in DOMAIN d : d[i] = "."
           THEN CHOOSE i \in DOMAIN d : d[i] = "." ELSE Len(d) + 1
  IN  Norm[DigitsValue(SubSeq(d, 1, p - 1)), FractionValue(SubSeq(d, p + 1, Len(d)))]

\* float(s) of a str: << the float >>, or <<>> where float raises ValueError.
PyFloat(s) ==
  LET t == Strip(s)
      u == Unsigned(t)
      negative == t # <<>> /\ t[1] = "-"
  IN  IF u = << "n", "a", "n" >> THEN << Float("nan", Zero) >>
      ELSE IF u = << "i", "n", "f" >>
        THEN << Float(IF negative THEN "-inf" ELSE "inf", Zero) >>
      ELSE IF IsDecimal(u)
        THEN << Float("finite",
                      IF negative THEN Neg[DecimalValue(u)] ELSE DecimalValue(u)) >>
      ELSE <<>>

\* x <= n and x >= n for a float x and an integer n.
FloatLeq(x, n) == x.kind = "-inf" \/ (x.kind = "finite" /\ Leq[x.num, FromInt(n)])
FloatGeq(x, n) == x.kind = "inf"  \/ (x.kind = "finite" /\ Leq[FromInt(n), x.num])

is_number(s) == PyFloat(s) # <<>>

\* A validator whose range leaves out its two ends.
valid_latitude_open(latitude_str) ==
  LET latitude_float == PyFloat(latitude_str)[1]
      frame == [latitude |-> latitude_str]
  IN  IF ~is_number(latitude_str)
      THEN Outcome("ArgumentTypeError", <<>>, frame, <<>>)
      ELSE IF ~(FloatLeq(latitude_float, 90) /\ FloatGeq(latitude_float, -90))
              \/ latitude_float.num \in {FromInt(90), FromInt(-90)}
      THEN Outcome("ArgumentTypeError", <<>>, frame, <<>>)
      ELSE Outcome("none", << latitude_float.num >>, frame, <<>>)

\* valid_latitude(latitude) and valid_longitude(longitude), on a str; the
\* float returned is given as the number it stands for.
valid_latitude(latitude_str) ==
  LET latitude_float == PyFloat(latitude_str)[1]
      frame == [latitude |-> latitude_str]
  IN  IF ~is_number(latitude_str)
      THEN Outcome("ArgumentTypeError", <<>>, frame, <<>>)
      ELSE IF ~(FloatLeq(latitude_float, 90) /\ FloatGeq(latitude_float, -90))
      THEN Outcome("ArgumentTypeError", <<>>, frame, <<>>)
      ELSE Outcome("none", << latitude_float.num >>, frame, <<>>)

valid_longitude(longitude_str) ==
  LET longitude_float == PyFloat(longitude_str)[1]
      frame == [longitude |-> longitude_str]
  IN  IF ~is_number(longitude_str)
      THEN Outcome("ArgumentTypeError", <<>>, frame, <<>>)
      ELSE IF ~(FloatLeq(longitude_float, 180) /\ FloatGeq(longitude_float, -180))
      THEN Outcome("ArgumentTypeError", <<>>, frame, <<>>)
      ELSE Outcome("none", << longitude_float.num >>, frame, <<>>)

(***************************************************************************)
(* The tests' calls of the validators: one call on one string, with no     *)
(* location object (its fields are unbound, <<>>)                          *)
(***************************************************************************)
Unbound == <<>>

\* The module as loaded: verbose = 1, nothing called or printed.
Loaded ==
  /\ latitude = Unbound
  /\ longitude = Unbound
  /\ verbose = 1
  /\ date_given = Unbound
  /\ zenith = "official"
  /\ calls = <<>>
  /\ printed = <<>>

\* Strings for a latitude or a longitude: signed decimals about the ends of
\* the two ranges, and others; none has more than eight digits after the
\* point.
NumberStrings ==
  { sign \o whole \o fraction :
      sign \in { <<>>, << "-" >>, << "+" >> },
      whole \in { << "0" >>, << "4", "5" >>, << "9", "0" >>, << "9", "1" >>,
                  << "1", "8", "0" >>, << "1", "8", "1" >> },
      fraction \in { <<>>, << ".", "0" >>,
                     << ".", "0", "0", "0", "0", "0", "0", "0", "1" >> } }
  \cup
  { <<>>,
    << " ", "4", "5", " " >>,
    << "n", "a", "n" >>,
    << "-", "i", "n", "f" >>,
    << "i", "n", "f" >>,
    << "+", "n", "a", "n" >>,
    << "a", "b", "c" >>,
    << ".", "5" >>,
    << "5", "." >>,
    << "." >>,
    << "-", "-", "5" >>,
    << "1", "_", "0" >>,
    << "9", " ", "0" >>,
    << "9", "5", ".", "0", "0" >>,
    << "1", "8", "9", ".", "0", "0" >>,
    << "5", "1", ".", "4", "1", "4", "1", "6", "6", "6", "6" >>,
    << "-", "1", ".", "5", "1", "5" >>,
    << "0", ".", "0", "0" >>,
    << "-", "0", ".", "0" >> }

\* The integer literals of int(): digits, single underscores allowed
\* between digits.
IsIntegerLiteral(u) ==
  /\ u # <<>>
  /\ \A i \in DOMAIN u : IsDigit(u[i]) \/ u[i] = "_"
  /\ \A i \in DOMAIN u :
       u[i] = "_" => i > 1 /\ i < Len(u) /\ IsDigit(u[i - 1]) /\ IsDigit(u[i + 1])

\* int(s) of a str: << the int >>, or <<>> where int raises ValueError.
PyInt(s) ==
  LET t == Strip(s)
      u == Unsigned(t)
      n == DigitsValue(SelectSeq(u, LAMBDA c : c # "_"))
  IN  IF IsIntegerLiteral(u)
      THEN << IF t[1] = "-" THEN -n ELSE n >>
      ELSE <<>>

is_integer(s) == PyInt(s) # <<>>

\* valid_date(date_str): the year, month and day are converted outside the
\* try statement, so that a ValueError of int() leaves the function.
valid_date(date_str) ==
  LET year  == PyInt(SubSeq(date_str, 1, 4))
      month == PyInt(SubSeq(date_str, 5, 6))
      day   == PyInt(SubSeq(date_str, 7, 8))
      frame == [date_str |-> date_str]
  IN  IF Len(date_str) # 8
      THEN Outcome("ArgumentTypeError", <<>>, frame, <<>>)
      ELSE IF ~is_integer(date_str)
      THEN Outcome("ArgumentTypeError", <<>>, frame, <<>>)
      ELSE IF year = <<>> \/ month = <<>> \/ day = <<>>
      THEN Outcome("ValueError", <<>>, frame, <<>>)
      ELSE IF ~ValidDate(Date(year[1], month[1], day[1]))
      THEN Outcome("ArgumentTypeError", <<>>, frame, <<>>)
      ELSE Outcome("none", << Date(year[1], month[1], day[1]) >>, frame, <<>>)

\* Strings for a date: four characters for the year, two for the month and
\* two for the day, and others.
YearStrings ==
  { << "2", "0", "2", "2" >>, << "2", "0", "2", "4" >>, << "2", "1", "0", "0" >>,
    << "0", "0", "0", "0" >>, << "+", "2", "0", "2" >>, << " ", "2", "0", "2" >>,
    << "2", "_", "2", "2" >>, << "-", "0", "2", "2" >>, << "2", "0", "2", "_" >> }

MonthStrings ==
  { << "0", "1" >>, << "0", "2" >>, << "1", "1" >>,
    << "1", "2" >>, << "1", "3" >>, << "0", "0" >>,
    << "_", "1" >>, << "1", "_" >> }

DayStrings ==
  { << "0", "1" >>, << "2", "0" >>, << "2", "9" >>,
    << "3", "0" >>, << "3", "1" >>, << "3", "2" >>,
    << "0", "0" >>, << "2", " " >> }

DateStrings ==
  { y \o m \o d : y \in YearStrings, m \in MonthStrings, d \in DayStrings }
  \cup
  { <<>>, << "2", "0", "2", "2", "-", "1", "1", "-", "2", "0" >>, << "2", "0", "2", "2", "1", "1", "2" >>,
    << "2", "0", "2", "2", "1", "1", "2", "0", "0" >>, << "2", "0", "2", "2", "1", " ", "2", "0" >>, << " ", " ", " ", " ", "2", "0", "2", "2" >>,
    << "a", "b", "c", "d", "e", "f", "a", "b" >> }

\* A call of a validator changes nothing but the record of calls.
CallValidator(method, s, o) ==
  /\ calls' = Append(calls, CallRecord(method, << s >>, o))
  /\ UNCHANGED <<latitude, longitude, verbose, date_given, zenith, printed>>

CallValidLatitude ==
  /\ calls = <<>>
  /\ \E s \in NumberStrings : CallValidator("valid_latitude", s, valid_latitude(s))

CallValidLongitude ==
  /\ calls = <<>>
  /\ \E s \in NumberStrings : CallValidator("valid_longitude", s, valid_longitude(s))

CallValidDate ==
  /\ calls = <<>>
  /\ \E s \in DateStrings : CallValidator("valid_date", s, valid_date(s))

NextValid == CallValidLatitude \/ CallValidLongitude \/ CallValidDate

SpecValid == Loaded /\ [][NextValid]_vars

\* The calls of a validator among the calls made.
CallsOf(method) == { i \in DOMAIN calls : calls[i].method = method }

\* What a validator of the range -bound..bound is to do with a string: hand
\* back the number it stands for, or raise ArgumentTypeError.
RangeChecked(c, bound) ==
  IF /\ PyFloat(c.args[1]) # <<>>
     /\ PyFloat(c.args[1])[1].kind = "finite"
     /\ Leq[FromInt(-bound), PyFloat(c.args[1])[1].num]
     /\ Leq[PyFloat(c.args[1])[1].num, FromInt(bound)]
  THEN c.raised = "none" /\ c.value = << PyFloat(c.args[1])[1].num >>
  ELSE c.raised = "ArgumentTypeError" /\ c.value = <<>>

\* C14: valid_latitude returns the number a string stands for exactly when
\* it is a number from -90 to 90, ends included, and raises
\* ArgumentTypeError otherwise; valid_longitude does so for -180 to 180.
C14_RangeValidators ==
  /\ \A i \in CallsOf("valid_latitude")  : RangeChecked(calls[i], 90)
  /\ \A i \in CallsOf("valid_longitude") : RangeChecked(calls[i], 180)

\* valid_latitude has returned 90, -90 or 0.
C14_Witness ==
  \E i \in CallsOf("valid_latitude") :
    /\ Returned(calls[i])
    /\ calls[i].value[1] \in { FromInt(90), FromInt(-90), Zero }

\* A string of exactly eight digits.
EightDigits(s) == Len(s) = 8 /\ \A i \in DOMAIN s : IsDigit(s[i])

\* The date YYYYMMDD names.
Named(s) ==
  Date(DigitsValue(SubSeq(s, 1, 4)), DigitsValue(SubSeq(s, 5, 6)),
       DigitsValue(SubSeq(s, 7, 8)))

\* C15: valid_date returns the date when the string is eight digits YYYYMMDD
\* that name a date of the calendar, and raises ArgumentTypeError for every
\* other string.
C15_DateValidator ==
  \A i \in CallsOf("valid_date") :
    IF EightDigits(calls[i].args[1]) /\ ValidDate(Named(calls[i].args[1]))
    THEN calls[i].raised = "none" /\ calls[i].value = << Named(calls[i].args[1]) >>
    ELSE calls[i].raised = "ArgumentTypeError" /\ calls[i].value = <<>>

(***************************************************************************)
(* main of sunrise_sunset.py, run without --test.  A command line is a     *)
(* record of its options: flags is the sequence of -q and -v given, and    *)
(* Latitude, Longitude, Date and Zenith are <<>> when the option is absent *)
(* and << its string >> when it is given.  Only what goes to standard      *)
(* output is kept as printed.                                              *)
(***************************************************************************)
\* The store_const of -q and the count of -v, both on dest verbose with
\* default 1, taken in the order given.
RECURSIVE Counted(_, _)
Counted(flags, v) ==
  IF flags = <<>> THEN v
  ELSE Counted(Tail(flags), IF Head(flags) = "-q" THEN 0 ELSE v + 1)

\* An option with a type function: None (<<>>) when absent, else the call.
Typed(option, method, o) ==
  IF option = <<>> THEN <<>> ELSE << CallRecord(method, option, o) >>

\* parser.parse_args(): the calls of the type functions, in the order of
\* the usage text, up to the first that raises; any exception of a type
\* function and any Zenith outside the choices end in SystemExit(2).
parse_args(argv) ==
  LET lat  == Typed(argv.Latitude, "valid_latitude",
                    valid_latitude(IF argv.Latitude = <<>> THEN <<>> ELSE argv.Latitude[1]))
      lng  == Typed(argv.Longitude, "valid_longitude",
                    valid_longitude(IF argv.Longitude = <<>> THEN <<>> ELSE argv.Longitude[1]))
      date == Typed(argv.Date, "valid_date",
                    valid_date(IF argv.Date = <<>> THEN <<>> ELSE argv.Date[1]))
      Failed(c) == c # <<>> /\ ~Returned(c[1])
      Value(c)  == IF c = <<>> THEN <<>> ELSE c[1].value
      made == IF Failed(lat) THEN lat
              ELSE IF Failed(lng) THEN lat \o lng
              ELSE lat \o lng \o date
      exits == \/ Failed(lat) \/ Failed(lng) \/ Failed(date)
               \/ (argv.Zenith # <<>> /\ argv.Zenith[1] \notin KnownZeniths)
  IN  [ raised |-> IF exits THEN "SystemExit" ELSE "none",
        calls  |-> made,
        args   |-> IF exits THEN <<>>
                   ELSE << [ verbose   |-> Counted(argv.flags, 1),
                             Latitude  |-> Value(lat),
                             Longitude |-> Value(lng),
                             opt_test  |-> FALSE,
                             Date      |-> Value(date),
                             Zenith    |-> IF argv.Zenith = <<>> THEN "official"
                                           ELSE argv.Zenith[1] ] >> ]

\* The messages of main up to "Start work", all of level 1: one for each
\* key of args, then the banner.
StartMessages(platform) ==
  << <<1, "Option verbose">>, <<1, "Option Latitude">>, <<1, "Option Longitude">>,
     <<1, "Option opt_test">>, <<1, "Option Date">>, <<1, "Option Zenith">>,
     <<1, "sunrise_sunset Version 1.2.1">>, <<1, "Started">>,
     <<1, "Python interpreter running on">>, <<1, "Interpreter version">>,
     <<1, "Invoked via">> >>
  \o (IF platform = "linux" THEN << <<1, "Running on Linux.">> >> ELSE <<>>)
  \o (IF platform = "cygwin" THEN << <<1, "Running on Cygwin.">> >> ELSE <<>>)
  \o << <<1, "Verbose level">>, <<1, "Initialisation complete.">> >>

\* location(latitude, longitude, verbose) as an expression: set_verbose,
\* the constructor's message, and the two asserts, which fail on None.
\* What set_verbose prints is printed whatever the level, as level 0 is.
location(lat, lng, v) ==
  LET altering == SetVerboseLines(1, v)
      msgs  == [i \in DOMAIN altering |-> <<0, altering[i]>>]
               \o << <<1, "location class constructor">> >>
      frame == [latitude |-> lat, longitude |-> lng, verbose |-> v]
  IN  IF lat = <<>> \/ lng = <<>>
      THEN Outcome("AssertionError", <<>>, frame, msgs)
      ELSE Outcome("none",
                   << [latitude |-> lat[1], longitude |-> lng[1], verbose |-> v] >>,
                   frame, msgs)

\* What a run of main comes to: the exception that left it or the value it
\* returned, the calls it made, its messages, the location it bound to
\* new_place and its date_given.
Run(raised, value, made, msgs, place, date) ==
  [ raised |-> raised, value |-> value, calls |-> made, msgs |-> msgs,
    place |-> place, date_given |-> date ]

\* sun_set = new_place.sunset(date_given, zenith), "Finished!" and
\* return(errors), errors being 0.
AfterSunrise(args, date, place, rise, set) ==
  Run(set.raised, IF set.raised = "none" THEN << 0 >> ELSE <<>>,
      << CallRecord("location", << args.Latitude, args.Longitude, args.verbose >>, place),
         CallRecord("sunrise", << date, args.Zenith >>, rise),
         CallRecord("sunset", << date, args.Zenith >>, set) >>,
      place.msgs \o rise.msgs \o set.msgs
        \o (IF set.raised = "none" THEN << <<1, "Finished!">> >> ELSE <<>>),
      place.value, << date >>)

\* sun_rise = new_place.sunrise(date_given, zenith)
AfterLocation(args, date, place, rise) ==
  IF rise.raised # "none"
  THEN Run(rise.raised, <<>>,
           << CallRecord("location", << args.Latitude, args.Longitude, args.verbose >>, place),
              CallRecord("sunrise", << date, args.Zenith >>, rise) >>,
           place.msgs \o rise.msgs, place.value, << date >>)
  ELSE Apply(LAMBDA set : AfterSunrise(args, date, place, rise, set),
             sunset(place.value[1], date, args.Zenith))

\* new_place = location(latitude, longitude, verbose)
Work(args, date) ==
  LET place == location(args.Latitude, args.Longitude, args.verbose)
  IN  IF place.raised # "none"
      THEN Run(place.raised, <<>>,
               << CallRecord("location",
                             << args.Latitude, args.Longitude, args.verbose >>, place) >>,
               place.msgs, <<>>, << date >>)
      ELSE Apply(LAMBDA rise : AfterLocation(args, date, place, rise),
                 sunrise(place.value[1], date, args.Zenith))

\* Python's "not x" for None and for a float.
Not(x) == x = <<>> \/ x[1] = Zero

\* The chain "if not date_given ... elif not latitude ... elif not
\* longitude" and what follows it; today is datetime.date.today().
StartWork(args, today) ==
  IF args.Date = <<>> THEN Work(args, today)
  ELSE IF Not(args.Latitude)
  THEN Run("none", << 4 >>, <<>>, << <<0, "Latitude is required">> >>, <<>>, args.Date)
  ELSE IF Not(args.Longitude)
  THEN Run("none", << 4 >>, <<>>, << <<0, "Longitude is required">> >>, <<>>, args.Date)
  ELSE Work(args, args.Date[1])

\* main() on a command line.
main(argv, today, platform) ==
  LET parsed == parse_args(argv)
      Ended(run) ==
        [ run EXCEPT
            !.calls = parsed.calls \o @
                      \o << CallRecord("main", << argv >>,
                              Outcome(run.raised, run.value,
                                      [args |-> parsed.args, platform |-> platform],
                                      StartMessages(platform) \o run.msgs)) >>,
            !.msgs = StartMessages(platform) \o @ ]
  IN  IF parsed.raised # "none"
      THEN Run("SystemExit", <<>>,
               parsed.calls \o << CallRecord("main", << argv >>,
                                    Outcome("SystemExit", <<>>, [code |-> 2], <<>>)) >>,
               <<>>, <<>>, <<>>)
      ELSE Apply(Ended, StartWork(parsed.args[1], today))

CommandLines ==
  [ flags     : { <<>>, << "-q" >>, << "-v" >> },
    Latitude  : { <<>>, << << "0" >> >>, << << "0", ".", "0", "0" >> >>, << << "5", "1", ".", "4", "1", "4", "1", "6", "6", "6", "6" >> >>, << << "7", "8" >> >>, << << "9", "5", ".", "0", "0" >> >> },
    Longitude : { <<>>, << << "0" >> >>, << << "-", "1", ".", "5", "1", "5" >> >>, << << "1", "8", "9", ".", "0", "0" >> >> },
    Date      : { <<>>, << << "2", "0", "2", "2", "1", "1", "2", "2" >> >>, << << "2", "0", "2", "2", "1", "2", "2", "1" >> >>, << << "2", "0", "2", "2", "-", "1", "1", "-", "2", "0" >> >> },
    Zenith    : { <<>>, << "civil" >>, << "golden" >> } ]

Todays    == { Date(2022, 6, 21) }
Platforms == { "linux", "win32" }

\* One run of main from the module as loaded.  The level of the messages is
\* the global verbose, which the location object is given as well.
Main ==
  /\ calls = <<>>
  /\ \E argv \in CommandLines, today \in Todays, platform \in Platforms :
       \E run \in { main(argv, today, platform) } :
         /\ calls' = run.calls
         /\ verbose' = IF run.raised = "SystemExit" THEN verbose
                       ELSE Counted(argv.flags, 1)
         /\ printed' = printed \o Lines(verbose', run.msgs)
         /\ latitude'  = IF run.place = <<>> THEN Unbound ELSE run.place[1].latitude
         /\ longitude' = IF run.place = <<>> THEN Unbound ELSE run.place[1].longitude
         /\ date_given' = IF run.date_given = <<>> THEN Unbound ELSE run.date_given[1]
         /\ zenith' = IF argv.Zenith = <<>> \/ run.raised = "SystemExit" THEN zenith
                      ELSE argv.Zenith[1]

NextMain == Main

SpecMain == Loaded /\ [][NextMain]_vars

\* The runs of main that got past parse_args.
MainRuns ==
  { i \in DOMAIN calls : calls[i].method = "main" /\ calls[i].raised # "SystemExit" }

Called(method) == \E i \in DOMAIN calls : calls[i].method = method

Said(line) == \E i \in DOMAIN printed : printed[i] = line

\* C16: a run of main without --test that was not given --latitude says
\* "Latitude is required", and one that was given --latitude but not
\* --longitude says "Longitude is required"; either returns 4 and constructs
\* no location, with or without --date.
C16_MissingCoordinateReported ==
  \A i \in MainRuns :
    LET argv == calls[i].args[1] IN
      (argv.Latitude = <<>> \/ argv.Longitude = <<>>) =>
        /\ argv.Latitude = <<>> => Said("Latitude is required")
        /\ (argv.Latitude # <<>> /\ argv.Longitude = <<>>) => Said("Longitude is required")
        /\ Returned(calls[i]) /\ calls[i].value = << 4 >>
        /\ ~Called("location")

\* C17: a run of main that was given a latitude and a longitude the
\* validators accept says neither "Latitude is required" nor "Longitude is
\* required", and calls sunrise, and sunset once sunrise has returned.
C17_SuppliedCoordinatesUsed ==
  \A i \in MainRuns :
    LET argv == calls[i].args[1] IN
      (argv.Latitude # <<>> /\ argv.Longitude # <<>>) =>
        /\ ~Said("Latitude is required")
        /\ ~Said("Longitude is required")
        /\ Called("sunrise")
        /\ (\A j \in DOMAIN calls :
              (calls[j].method = "sunrise" /\ Returned(calls[j])) => Called("sunset"))

(***************************************************************************)
(* The ranges of the intermediate values of ss_calc.                       *)
(***************************************************************************)
\* C18: in every call on validated input the sun's true longitude after
\* step 4 is at least 0 and below 360.
C18_TrueLongitudeBelow360 ==
  \A i \in SolarCalls :
    (Validated(calls[i]) /\ "sun_true_longitude" \in DOMAIN calls[i].frame) =>
      /\ Leq[Zero, calls[i].frame.sun_true_longitude]
      /\ Less[calls[i].frame.sun_true_longitude, FromInt(360)]

\* C19: in every call on validated input with cosH in [-1, 1] the universal
\* time after step 9's adjustment is at least 0 and below 24.
C19_UniversalTimeBelow24 ==
  \A i \in CosHCalls :
    (Validated(calls[i]) /\ AcosDefined(calls[i].frame.cosH)
       /\ "UTC" \in DOMAIN calls[i].frame) =>
      /\ Leq[Zero, calls[i].frame.UTC]
      /\ Less[calls[i].frame.UTC, FromInt(24)]

(***************************************************************************)
(* Step 5b on doubles.  A double x with 1 <= x < 512 is written            *)
(* <<whole, f1, f2>> for whole + f1 / 2^26 + f2 / 2^52, the two fractions   *)
(* below 2^26 (a negative double has the three parts negative).  A double  *)
(* of binade b, 2^b <= x < 2^(b+1), keeps 52 - b of the 52 bits after the   *)
(* point.                                                                  *)
(***************************************************************************)
Limb26 == 2 ^ 26

Binade[w \in Nat] == IF w < 2 THEN 0 ELSE 1 + Binade[w \div 2]

\* The double nearest to whole + f1 / 2^26 + f2 / 2^52, ties to the even
\* one: what a sum of doubles is rounded to.
Nearest(x) ==
  LET g    == 2 ^ Binade[x[1]]
      down == x[3] - (x[3] % g)
      up   == \/ 2 * (x[3] % g) > g
              \/ 2 * (x[3] % g) = g /\ (down \div g) % 2 = 1
      f2   == IF up THEN down + g ELSE down
      f1   == x[2] + (IF f2 = Limb26 THEN 1 ELSE 0)
  IN  << x[1] + (IF f1 = Limb26 THEN 1 ELSE 0), f1 % Limb26, f2 % Limb26 >>

\* (math.floor(x / 90.0)) * 90.0: the quotient of a double below a multiple
\* of 90 is rounded to a double below the integer, so the floor is the floor
\* of the whole part's quotient.
Lquadrant(f)  == (f.sun_true_longitude[1] \div 90) * 90
RAquadrant(f) == (f.right_ascension[1] \div 90) * 90

\* right_ascension = right_ascension + (Lquadrant - RAquadrant)
QuadrantCorrected(f) ==
  [ f EXCEPT !.right_ascension =
      Nearest(<< @[1] + (Lquadrant(f) - RAquadrant(f)), @[2], @[3] >>) ]

\* sun_true_longitude and right_ascension as ss_calc holds them after step
\* 5a, on the equator, for the longitude, the date and the kind of call
\* named.
StepFrames ==
  {
    [ longitude |-> <<-180, 0, 0>>, date |-> Date(2022, 1, 31), rising |-> TRUE,
      sun_true_longitude |-> <<311, 37179059, 56807936>>, right_ascension |-> <<314, 547523, 9494528>> ],
    [ longitude |-> <<-180, 0, 0>>, date |-> Date(2022, 1, 31), rising |-> FALSE,
      sun_true_longitude |-> <<312, 4128385, 56487936>>, right_ascension |-> <<314, 34806934, 53866752>> ],
    [ longitude |-> <<-180, 0, 0>>, date |-> Date(2022, 6, 21), rising |-> TRUE,
      sun_true_longitude |-> <<90, 2049230, 60235776>>, right_ascension |-> <<270, 2233153, 25031168>> ],
    [ longitude |-> <<-180, 0, 0>>, date |-> Date(2022, 6, 21), rising |-> FALSE,
      sun_true_longitude |-> <<90, 34062798, 29178880>>, right_ascension |-> <<270, 37119819, 44034048>> ],
    [ longitude |-> <<-180, 0, 0>>, date |-> Date(2022, 11, 22), rising |-> TRUE,
      sun_true_longitude |-> <<240, 7174293, 36402688>>, right_ascension |-> <<57, 62712203, 61415104>> ],
    [ longitude |-> <<-180, 0, 0>>, date |-> Date(2022, 11, 22), rising |-> FALSE,
      sun_true_longitude |-> <<240, 41083440, 55993344>>, right_ascension |-> <<58, 30935067, 7903776>> ],
    [ longitude |-> <<-180, 0, 0>>, date |-> Date(2022, 12, 21), rising |-> TRUE,
      sun_true_longitude |-> <<269, 36491783, 24872960>>, right_ascension |-> <<89, 33743972, 16893312>> ],
    [ longitude |-> <<-180, 0, 0>>, date |-> Date(2022, 12, 21), rising |-> FALSE,
      sun_true_longitude |-> <<270, 3555184, 48898048>>, right_ascension |-> <<270, 3874269, 24386560>> ],
    [ longitude |-> <<-180, 0, 0>>, date |-> Date(2022, 12, 22), rising |-> TRUE,
      sun_true_longitude |-> <<270, 37729618, 55071744>>, right_ascension |-> <<270, 41115679, 2021888>> ],
    [ longitude |-> <<-180, 0, 0>>, date |-> Date(2022, 12, 22), rising |-> FALSE,
      sun_true_longitude |-> <<271, 4797271, 23563264>>, right_ascension |-> <<271, 11249275, 46945280>> ],
    [ longitude |-> <<-161, -18378106, -54747520>>, date |-> Date(2022, 1, 31), rising |-> TRUE,
      sun_true_longitude |-> <<311, 33635568, 47239424>>, right_ascension |-> <<313, 64088961, 10354944>> ],
    [ longitude |-> <<-161, -18378106, -54747520>>, date |-> Date(2022, 1, 31), rising |-> FALSE,
      sun_true_longitude |-> <<312, 585397, 8658944>>, right_ascension |-> <<314, 31245446, 22894848>> ],
    [ longitude |-> <<-161, -18378106, -54747520>>, date |-> Date(2022, 6, 21), rising |-> TRUE,
      sun_true_longitude |-> <<89, 65827479, 9447424>>, right_ascension |-> <<89, 65712472, 22272704>> ],
    [ longitude |-> <<-161, -18378106, -54747520>>, date |-> Date(2022, 6, 21), rising |-> FALSE,
      sun_true_longitude |-> <<90, 30732384, 10249216>>, right_ascension |-> <<270, 33490542, 32911616>> ],
    [ longitude |-> <<-161, -18378106, -54747520>>, date |-> Date(2022, 9, 23), rising |-> FALSE,
      sun_true_longitude |-> <<180, 54691055, 51650560>>, right_ascension |-> <<0, 50187234, 63272451>> ],
    [ longitude |-> <<-161, -18378106, -54747520>>, date |-> Date(2022, 11, 22), rising |-> TRUE,
      sun_true_longitude |-> <<240, 3646966, 20182016>>, right_ascension |-> <<57, 59039658, 29722112>> ],
    [ longitude |-> <<-161, -18378106, -54747520>>, date |-> Date(2022, 11, 22), rising |-> FALSE,
      sun_true_longitude |-> <<240, 37555423, 10209280>>, right_ascension |-> <<58, 27256802, 64680000>> ],
    [ longitude |-> <<-161, -18378106, -54747520>>, date |-> Date(2022, 12, 21), rising |-> TRUE,
      sun_true_longitude |-> <<269, 32936829, 14251008>>, right_ascension |-> <<89, 29870005, 38294912>> ],
    [ longitude |-> <<-161, -18378106, -54747520>>, date |-> Date(2022, 12, 21), rising |-> FALSE,
      sun_true_longitude |-> <<270, 0, 0>>, right_ascension |-> <<89, 67108863, 67108800>> ],
    [ longitude |-> <<-161, -18378106, -54747520>>, date |-> Date(2022, 12, 22), rising |-> TRUE,
      sun_true_longitude |-> <<270, 34174212, 32759808>>, right_ascension |-> <<270, 37241231, 36751360>> ],
    [ longitude |-> <<-161, -18378106, -54747520>>, date |-> Date(2022, 12, 22), rising |-> FALSE,
      sun_true_longitude |-> <<271, 1241652, 26939904>>, right_ascension |-> <<271, 7374774, 46576128>> ],
    [ longitude |-> <<-90, 0, 0>>, date |-> Date(2022, 1, 31), rising |-> TRUE,
      sun_true_longitude |-> <<311, 20148161, 54186496>>, right_ascension |-> <<313, 50505279, 14753280>> ],
    [ longitude |-> <<-90, 0, 0>>, date |-> Date(2022, 1, 31), rising |-> FALSE,
      sun_true_longitude |-> <<311, 54208759, 1499904>>, right_ascension |-> <<314, 17684363, 7953664>> ],
    [ longitude |-> <<-90, 0, 0>>, date |-> Date(2022, 6, 21), rising |-> TRUE,
      sun_true_longitude |-> <<89, 53150577, 8838656>>, right_ascension |-> <<89, 51897805, 59435072>> ],
    [ longitude |-> <<-90, 0, 0>>, date |-> Date(2022, 6, 21), rising |-> FALSE,
      sun_true_longitude |-> <<90, 18056256, 17814016>>, right_ascension |-> <<270, 19676813, 50479360>> ],
    [ longitude |-> <<-90, 0, 0>>, date |-> Date(2022, 9, 23), rising |-> FALSE,
      sun_true_longitude |-> <<180, 41680867, 19448320>>, right_ascension |-> <<0, 38248267, 44995649>> ],
    [ longitude |-> <<-90, 0, 0>>, date |-> Date(2022, 11, 22), rising |-> TRUE,
      sun_true_longitude |-> <<239, 57331079, 16764928>>, right_ascension |-> <<57, 45066996, 39589152>> ],
    [ longitude |-> <<-90, 0, 0>>, date |-> Date(2022, 11, 22), rising |-> FALSE,
      sun_true_longitude |-> <<240, 24128038, 694784>>, right_ascension |-> <<58, 13262334, 64811520>> ],
    [ longitude |-> <<-90, 0, 0>>, date |-> Date(2022, 12, 21), rising |-> TRUE,
      sun_true_longitude |-> <<269, 19406490, 59099136>>, right_ascension |-> <<89, 15125608, 66934144>> ],
    [ longitude |-> <<-90, 0, 0>>, date |-> Date(2022, 12, 21), rising |-> FALSE,
      sun_true_longitude |-> <<269, 53577639, 38387712>>, right_ascension |-> <<89, 52363196, 60859136>> ],
    [ longitude |-> <<-90, 0, 0>>, date |-> Date(2022, 12, 22), rising |-> TRUE,
      sun_true_longitude |-> <<270, 20642136, 4820992>>, right_ascension |-> <<270, 22494767, 64940800>> ],
    [ longitude |-> <<-90, 0, 0>>, date |-> Date(2022, 12, 22), rising |-> FALSE,
      sun_true_longitude |-> <<270, 54817622, 12214272>>, right_ascension |-> <<270, 59736852, 56583680>> ],
    [ longitude |-> <<-1, -34561064, -64424509>>, date |-> Date(2022, 1, 31), rising |-> TRUE,
      sun_true_longitude |-> <<311, 3402791, 1276416>>, right_ascension |-> <<313, 33628973, 20849664>> ],
    [ longitude |-> <<-1, -34561064, -64424509>>, date |-> Date(2022, 1, 31), rising |-> FALSE,
      sun_true_longitude |-> <<311, 37465736, 26611200>>, right_ascension |-> <<314, 836111, 23530752>> ],
    [ longitude |-> <<-1, -34561064, -64424509>>, date |-> Date(2022, 6, 21), rising |-> TRUE,
      sun_true_longitude |-> <<89, 37412030, 20251136>>, right_ascension |-> <<89, 34746801, 39550272>> ],
    [ longitude |-> <<-1, -34561064, -64424509>>, date |-> Date(2022, 6, 21), rising |-> FALSE,
      sun_true_longitude |-> <<90, 2318686, 36243456>>, right_ascension |-> <<270, 2526793, 11615744>> ],
    [ longitude |-> <<-1, -34561064, -64424509>>, date |-> Date(2022, 9, 23), rising |-> TRUE,
      sun_true_longitude |-> <<179, 59793987, 32765952>>, right_ascension |-> <<359, 60396439, 29448704>> ],
    [ longitude |-> <<-1, -34561064, -64424509>>, date |-> Date(2022, 11, 22), rising |-> TRUE,
      sun_true_longitude |-> <<239, 40665992, 55515136>>, right_ascension |-> <<57, 27732306, 22528032>> ],
    [ longitude |-> <<-1, -34561064, -64424509>>, date |-> Date(2022, 11, 22), rising |-> FALSE,
      sun_true_longitude |-> <<240, 7459667, 54265856>>, right_ascension |-> <<57, 63009349, 47795040>> ],
    [ longitude |-> <<-1, -34561064, -64424509>>, date |-> Date(2022, 12, 21), rising |-> TRUE,
      sun_true_longitude |-> <<269, 2609360, 52792320>>, right_ascension |-> <<88, 63930503, 39286848>> ],
    [ longitude |-> <<-1, -34561064, -64424509>>, date |-> Date(2022, 12, 21), rising |-> FALSE,
      sun_true_longitude |-> <<269, 36779390, 43540992>>, right_ascension |-> <<89, 34057389, 10615552>> ],
    [ longitude |-> <<-1, -34561064, -64424509>>, date |-> Date(2022, 12, 22), rising |-> TRUE,
      sun_true_longitude |-> <<270, 3842810, 41600000>>, right_ascension |-> <<270, 4187710, 12835840>> ],
    [ longitude |-> <<-1, -34561064, -64424509>>, date |-> Date(2022, 12, 22), rising |-> FALSE,
      sun_true_longitude |-> <<270, 38017262, 40227840>>, right_ascension |-> <<270, 41429133, 47085056>> ],
    [ longitude |-> <<18, 48730757, 12361392>>, date |-> Date(2022, 1, 31), rising |-> TRUE,
      sun_true_longitude |-> <<310, 66680952, 51477760>>, right_ascension |-> <<313, 29766542, 8547584>> ],
    [ longitude |-> <<18, 48730757, 12361392>>, date |-> Date(2022, 1, 31), rising |-> FALSE,
      sun_true_longitude |-> <<311, 33635568, 47239424>>, right_ascension |-> <<313, 64088961, 10354944>> ],
    [ longitude |-> <<18, 48730757, 12361392>>, date |-> Date(2022, 6, 21), rising |-> TRUE,
      sun_true_longitude |-> <<89, 33811732, 59750912>>, right_ascension |-> <<89, 30823419, 54650240>> ],
    [ longitude |-> <<18, 48730757, 12361392>>, date |-> Date(2022, 6, 21), rising |-> FALSE,
      sun_true_longitude |-> <<89, 65827479, 9447424>>, right_ascension |-> <<89, 65712472, 22272704>> ],
    [ longitude |-> <<18, 48730757, 12361392>>, date |-> Date(2022, 9, 23), rising |-> TRUE,
      sun_true_longitude |-> <<179, 56101017, 25762816>>, right_ascension |-> <<359, 57007619, 18300928>> ],
    [ longitude |-> <<18, 48730757, 12361392>>, date |-> Date(2022, 11, 22), rising |-> TRUE,
      sun_true_longitude |-> <<239, 36854044, 40507392>>, right_ascension |-> <<57, 23768841, 5902080>> ],
    [ longitude |-> <<18, 48730757, 12361392>>, date |-> Date(2022, 11, 22), rising |-> FALSE,
      sun_true_longitude |-> <<240, 3646966, 20182016>>, right_ascension |-> <<57, 59039658, 29722112>> ],
    [ longitude |-> <<18, 48730757, 12361392>>, date |-> Date(2022, 12, 21), rising |-> TRUE,
      sun_true_longitude |-> <<268, 65875922, 13626880>>, right_ascension |-> <<88, 59743581, 9526720>> ],
    [ longitude |-> <<18, 48730757, 12361392>>, date |-> Date(2022, 12, 21), rising |-> FALSE,
      sun_true_longitude |-> <<269, 32936829, 14251008>>, right_ascension |-> <<89, 29870005, 38294912>> ],
    [ longitude |-> <<18, 48730757, 12361392>>, date |-> Date(2022, 12, 22), rising |-> TRUE,
      sun_true_longitude |-> <<270, 0, 0>>, right_ascension |-> <<89, 67108863, 67108800>> ],
    [ longitude |-> <<18, 48730757, 12361392>>, date |-> Date(2022, 12, 22), rising |-> FALSE,
      sun_true_longitude |-> <<270, 34174212, 32759808>>, right_ascension |-> <<270, 37241231, 36751360>> ],
    [ longitude |-> <<90, 0, 0>>, date |-> Date(2022, 1, 31), rising |-> TRUE,
      sun_true_longitude |-> <<310, 53191671, 16516096>>, right_ascension |-> <<313, 16160266, 28538112>> ],
    [ longitude |-> <<90, 0, 0>>, date |-> Date(2022, 1, 31), rising |-> FALSE,
      sun_true_longitude |-> <<311, 20148161, 54186496>>, right_ascension |-> <<313, 50505279, 14753280>> ],
    [ longitude |-> <<90, 0, 0>>, date |-> Date(2022, 6, 21), rising |-> TRUE,
      sun_true_longitude |-> <<89, 21134027, 43051520>>, right_ascension |-> <<89, 17008143, 12907648>> ],
    [ longitude |-> <<90, 0, 0>>, date |-> Date(2022, 6, 21), rising |-> FALSE,
      sun_true_longitude |-> <<89, 53150577, 8838656>>, right_ascension |-> <<89, 51897805, 59435072>> ],
    [ longitude |-> <<90, 0, 0>>, date |-> Date(2022, 9, 23), rising |-> TRUE,
      sun_true_longitude |-> <<179, 43098121, 55235584>>, right_ascension |-> <<359, 45075601, 21267456>> ],
    [ longitude |-> <<90, 0, 0>>, date |-> Date(2022, 11, 22), rising |-> TRUE,
      sun_true_longitude |-> <<239, 23431952, 19163648>>, right_ascension |-> <<57, 9818141, 26523136>> ],
    [ longitude |-> <<90, 0, 0>>, date |-> Date(2022, 11, 22), rising |-> FALSE,
      sun_true_longitude |-> <<239, 57331079, 16764928>>, right_ascension |-> <<57, 45066996, 39589152>> ],
    [ longitude |-> <<90, 0, 0>>, date |-> Date(2022, 12, 21), rising |-> TRUE,
      sun_true_longitude |-> <<268, 52346503, 66786304>>, right_ascension |-> <<88, 45000928, 47575680>> ],
    [ longitude |-> <<90, 0, 0>>, date |-> Date(2022, 12, 21), rising |-> FALSE,
      sun_true_longitude |-> <<269, 19406490, 59099136>>, right_ascension |-> <<89, 15125608, 66934144>> ],
    [ longitude |-> <<90, 0, 0>>, date |-> Date(2022, 12, 22), rising |-> TRUE,
      sun_true_longitude |-> <<269, 53577639, 38387712>>, right_ascension |-> <<89, 52363196, 60859136>> ],
    [ longitude |-> <<90, 0, 0>>, date |-> Date(2022, 12, 22), rising |-> FALSE,
      sun_true_longitude |-> <<270, 20642136, 4820992>>, right_ascension |-> <<270, 22494767, 64940800>> ],
    [ longitude |-> <<150, 0, 0>>, date |-> Date(2022, 1, 31), rising |-> TRUE,
      sun_true_longitude |-> <<310, 41835509, 5170944>>, right_ascension |-> <<313, 4699251, 34774784>> ],
    [ longitude |-> <<150, 0, 0>>, date |-> Date(2022, 1, 31), rising |-> FALSE,
      sun_true_longitude |-> <<311, 8793568, 29957888>>, right_ascension |-> <<313, 39063281, 20430848>> ],
    [ longitude |-> <<150, 0, 0>>, date |-> Date(2022, 6, 21), rising |-> TRUE,
      sun_true_longitude |-> <<89, 10461385, 61816832>>, right_ascension |-> <<89, 5378000, 44259520>> ],
    [ longitude |-> <<150, 0, 0>>, date |-> Date(2022, 6, 21), rising |-> FALSE,
      sun_true_longitude |-> <<89, 42478620, 35348480>>, right_ascension |-> <<89, 40268076, 30123712>> ],
    [ longitude |-> <<150, 0, 0>>, date |-> Date(2022, 9, 23), rising |-> TRUE,
      sun_true_longitude |-> <<179, 32153096, 10952704>>, right_ascension |-> <<359, 35031913, 42641920>> ],
    [ longitude |-> <<150, 0, 0>>, date |-> Date(2022, 9, 23), rising |-> FALSE,
      sun_true_longitude |-> <<179, 64991234, 66904064>>, right_ascension |-> <<359, 65165642, 59767808>> ],
    [ longitude |-> <<150, 0, 0>>, date |-> Date(2022, 11, 22), rising |-> TRUE,
      sun_true_longitude |-> <<239, 12133741, 64083968>>, right_ascension |-> <<56, 65189752, 43351136>> ],
    [ longitude |-> <<150, 0, 0>>, date |-> Date(2022, 11, 22), rising |-> FALSE,
      sun_true_longitude |-> <<239, 46030623, 14711808>>, right_ascension |-> <<57, 33311209, 21728224>> ],
    [ longitude |-> <<150, 0, 0>>, date |-> Date(2022, 12, 21), rising |-> TRUE,
      sun_true_longitude |-> <<268, 40957412, 32937984>>, right_ascension |-> <<88, 32590852, 30991104>> ],
    [ longitude |-> <<150, 0, 0>>, date |-> Date(2022, 12, 21), rising |-> FALSE,
      sun_true_longitude |-> <<269, 8016614, 24575488>>, right_ascension |-> <<89, 2713919, 15293376>> ],
    [ longitude |-> <<150, 0, 0>>, date |-> Date(2022, 12, 22), rising |-> TRUE,
      sun_true_longitude |-> <<269, 42187006, 44788736>>, right_ascension |-> <<89, 39950292, 9745472>> ],
    [ longitude |-> <<150, 0, 0>>, date |-> Date(2022, 12, 22), rising |-> FALSE,
      sun_true_longitude |-> <<270, 9250775, 31243264>>, right_ascension |-> <<270, 10081047, 10881024>> ],
    [ longitude |-> <<180, 0, 0>>, date |-> Date(2022, 1, 31), rising |-> TRUE,
      sun_true_longitude |-> <<310, 36157233, 56586496>>, right_ascension |-> <<312, 66075231, 50722560>> ],
    [ longitude |-> <<180, 0, 0>>, date |-> Date(2022, 1, 31), rising |-> FALSE,
      sun_true_longitude |-> <<311, 3116074, 28530688>>, right_ascension |-> <<313, 33339904, 53591552>> ],
    [ longitude |-> <<180, 0, 0>>, date |-> Date(2022, 6, 21), rising |-> TRUE,
      sun_true_longitude |-> <<89, 5124977, 37055488>>, right_ascension |-> <<88, 66671762, 55257792>> ],
    [ longitude |-> <<180, 0, 0>>, date |-> Date(2022, 6, 21), rising |-> FALSE,
      sun_true_longitude |-> <<89, 37142557, 52009984>>, right_ascension |-> <<89, 34453146, 46107136>> ],
    [ longitude |-> <<180, 0, 0>>, date |-> Date(2022, 9, 23), rising |-> TRUE,
      sun_true_longitude |-> <<179, 26680965, 47411712>>, right_ascension |-> <<359, 30010391, 33712640>> ],
    [ longitude |-> <<180, 0, 0>>, date |-> Date(2022, 9, 23), rising |-> FALSE,
      sun_true_longitude |-> <<179, 59517573, 48147968>>, right_ascension |-> <<359, 60142790, 64133120>> ],
    [ longitude |-> <<180, 0, 0>>, date |-> Date(2022, 11, 22), rising |-> TRUE,
      sun_true_longitude |-> <<239, 6484919, 4719104>>, right_ascension |-> <<56, 59323452, 37616256>> ],
    [ longitude |-> <<180, 0, 0>>, date |-> Date(2022, 11, 22), rising |-> FALSE,
      sun_true_longitude |-> <<239, 40380674, 61428736>>, right_ascension |-> <<57, 27435626, 24869696>> ],
    [ longitude |-> <<180, 0, 0>>, date |-> Date(2022, 12, 21), rising |-> TRUE,
      sun_true_longitude |-> <<268, 35262967, 3163136>>, right_ascension |-> <<88, 26386046, 29492864>> ],
    [ longitude |-> <<180, 0, 0>>, date |-> Date(2022, 12, 21), rising |-> FALSE,
      sun_true_longitude |-> <<269, 2321772, 56733184>>, right_ascension |-> <<88, 63617120, 45025088>> ],
    [ longitude |-> <<180, 0, 0>>, date |-> Date(2022, 12, 22), rising |-> TRUE,
      sun_true_longitude |-> <<269, 36491783, 24872960>>, right_ascension |-> <<89, 33743972, 16893312>> ],
    [ longitude |-> <<180, 0, 0>>, date |-> Date(2022, 12, 22), rising |-> FALSE,
      sun_true_longitude |-> <<270, 3555184, 48898048>>, right_ascension |-> <<270, 3874269, 24386560>> ]
  }

InitQuad ==
  \E f \in StepFrames :
    /\ latitude = <<0, 0, 0>> /\ longitude = f.longitude
    /\ verbose = 1 /\ date_given = f.date /\ zenith = "official"
    /\ printed = <<>>
    /\ calls = << [ method |-> IF f.rising THEN "sunrise" ELSE "sunset",
                    step |-> "5a", frame |-> f ] >>

\* Step 5b of the call under way.
QuadrantCorrection ==
  /\ Len(calls) = 1
  /\ calls' = Append(calls, [ calls[1] EXCEPT !.step = "5b",
                                             !.frame = QuadrantCorrected(@) ])
  /\ UNCHANGED << latitude, longitude, verbose, date_given, zenith, printed >>

NextQuad == QuadrantCorrection

SpecQuad == InitQuad /\ [][NextQuad]_vars

\* C20: after step 5b the right ascension is in the quadrant of the true
\* longitude, floor(RA / 90) = floor(L / 90), and what step 5b added to it
\* is a multiple of 90.
C20_SameQuadrant ==
  Len(calls) = 2 =>
    /\ calls[2].frame.right_ascension[1] \div 90
         = calls[2].frame.sun_true_longitude[1] \div 90
    /\ (Lquadrant(calls[1].frame) - RAquadrant(calls[1].frame)) % 90 = 0

(***************************************************************************)
(* Step 10 on its own: the universal times next to a whole second, the     *)
(* last number of eight decimals not above it and the first above it, in   *)
(* the first minutes of three hours.                                       *)
(***************************************************************************)
MaxSeconds == 240

UtcHours == { 0, 7, 23 }

UtcTimes ==
  { << h, (k * 250000) \div 9 + e >> : h \in UtcHours, k \in 0..MaxSeconds, e \in {0, 1} }

InitUtc ==
  \E u \in UtcTimes :
    /\ latitude = Zero /\ longitude = Zero
    /\ verbose = 1 /\ date_given = Date(2022, 11, 22) /\ zenith = "official"
    /\ printed = <<>>
    /\ calls = << [ method |-> "sunrise", step |-> "9", frame |-> [ UTC |-> u ] ] >>

\* Step 10 of the call under way.
Decomposition ==
  /\ Len(calls) = 1
  /\ calls' = Append(calls, [ calls[1] EXCEPT !.step = "10",
                                             !.frame = Decomposed(@) ])
  /\ UNCHANGED << latitude, longitude, verbose, date_given, zenith, printed >>

NextUtc == Decomposition

SpecUtc == InitUtc /\ [][NextUtc]_vars

\* The whole seconds in u hours, floor(u * 3600), for u >= 0.
WholeSeconds(u) == u[1] * 3600 + (u[2] * 9) \div 250000

\* C21: for a universal time u in [0, 24) the hour, the minute and the
\* second of step 10 add up to the whole seconds in u:
\* hour * 3600 + minute * 60 + second = floor(u * 3600).
C21_TruncatedToTheSecond ==
  Len(calls) = 2 =>
    LET f == calls[2].frame IN
      (Leq[Zero, f.UTC] /\ Less[f.UTC, FromInt(24)]) =>
        f.local_hour * 3600 + f.local_minute * 60 + f.local_second
          = WholeSeconds(f.UTC)

(***************************************************************************)
(* push_verbose and pop_verbose                                            *)
(***************************************************************************)
\* The levels that the pushes among the first n calls have saved and no pop
\* has yet restored, the latest last.
Saved[n \in Nat] ==
  IF n = 0 THEN <<>>
  ELSE IF calls[n].method = "push_verbose"
       THEN Append(Saved[n - 1], calls[n].frame.self.verbose)
  ELSE IF calls[n].method = "pop_verbose" /\ Saved[n - 1] # <<>>
       THEN SubSeq(Saved[n - 1], 1, Len(Saved[n - 1]) - 1)
  ELSE Saved[n - 1]

\* C22: push_verbose(v) returns the level in force before it and leaves the
\* level v; pop_verbose() returns and leaves the level that was in force
\* before the latest push not yet popped, and 0 when there is none.
C22_PushPopNest ==
  \A n \in DOMAIN calls :
    /\ calls[n].method = "push_verbose" =>
         /\ Returned(calls[n])
         /\ calls[n].value = << calls[n].frame.self.verbose >>
         /\ calls[n].frame.verbose = calls[n].args[1]
    /\ calls[n].method = "pop_verbose" =>
         /\ Returned(calls[n])
         /\ calls[n].frame.verbose =
              IF Saved[n - 1] = <<>> THEN 0 ELSE Saved[n - 1][Len(Saved[n - 1])]

\* C23: the day of year N of step 1 is the date's day of the year in the
\* proleptic Gregorian calendar, date.timetuple().tm_yday: the days of the
\* months before it and its day.
C23_DayOfYearIsCalendarDay ==
  \A i \in SolarCalls :
    ValidDate(calls[i].args[1]) =>
      calls[i].frame.N
        = DaysBeforeMonth(calls[i].args[1].year, calls[i].args[1].month)
          + calls[i].args[1].day

\* C24: a run of main with -q alone among the flags, and without --test,
\* leaves nothing on standard output, whichever way main ends: no option
\* echo, no location or sunrise/sunset message and no report of a missing
\* latitude or longitude.
C24_QuietPrintsNothing ==
    \A i \in DOMAIN calls :
        (calls[i].method = "main" /\ calls[i].args[1].flags = << "-q" >>)
            => printed = << >>
====
